---- MODULE Spec2Model ----
(***************************************************************************)
(* Water-quality CSV pipeline: the POST handler of                         *)
(* src/routes/api/process-csv/+server.ts and the functions it calls.       *)
(*                                                                         *)
(* Strings are sequences of one-character strings, so that toLowerCase,    *)
(* trim and parseFloat are computed character by character.  Numbers are   *)
(* records: a finite number carries its value in thousandths (v), and the  *)
(* two infinities and NaN are separate kinds.  Every value string of the   *)
(* model is a multiple of 0.125 with at most three fractional digits and   *)
(* groups hold at most a handful of values, so sums, averages and the      *)
(* products by 100 are exact in IEEE doubles as they are here.             *)
(***************************************************************************)
EXTENDS Integers, Sequences, FiniteSets, TLC

\* ------------------------------------------------------------------ bounds

\* Largest number of data rows of an uploaded file.
MaxRows == 3

\* ------------------------------------------------------------------ strings

WhiteSpace == {" ", "\t", "\n"}

UpperCase ==
  <<"A", "B", "C", "D", "E", "F", "G", "H", "I", "J", "K", "L", "M",
    "N", "O", "P", "Q", "R", "S", "T", "U", "V", "W", "X", "Y", "Z">>

LowerCase ==
  <<"a", "b", "c", "d", "e", "f", "g", "h", "i", "j", "k", "l", "m",
    "n", "o", "p", "q", "r", "s", "t", "u", "v", "w", "x", "y", "z">>

UpperToLower ==
  [c \in {UpperCase[i] : i \in 1..Len(UpperCase)} |->
     LowerCase[CHOOSE i \in 1..Len(UpperCase) : UpperCase[i] = c]]

toLowerChar(c) == IF c \in DOMAIN UpperToLower THEN UpperToLower[c] ELSE c

\* String.prototype.toLowerCase
toLowerCase(s) == [i \in 1..Len(s) |-> toLowerChar(s[i])]

RECURSIVE trimStart(_)
trimStart(s) ==
  IF s # <<>> /\ Head(s) \in WhiteSpace THEN trimStart(Tail(s)) ELSE s

RECURSIVE trimEnd(_)
trimEnd(s) ==
  IF s # <<>> /\ s[Len(s)] \in WhiteSpace
    THEN trimEnd(SubSeq(s, 1, Len(s) - 1))
    ELSE s

\* String.prototype.trim
trim(s) == trimEnd(trimStart(s))

\* The value of a missing property, and of x?.trim() on it.
Undefined == <<"undefined">>

\* x?.trim()
optTrim(x) == IF x = Undefined THEN Undefined ELSE trim(x)

\* JavaScript truthiness of a string-or-undefined value.
Truthy(x) == x # Undefined /\ x # <<>>

\* ------------------------------------------------------------------ numbers

Fin(v) == [k |-> "fin", v |-> v]
PosInf == [k |-> "inf", v |-> 1]
NegInf == [k |-> "inf", v |-> -1]
NaN == [k |-> "nan", v |-> 0]

isNaN(x) == x.k = "nan"

Digits == <<"0", "1", "2", "3", "4", "5", "6", "7", "8", "9">>

DigitValues ==
  [c \in {Digits[i] : i \in 1..Len(Digits)} |->
     (CHOOSE i \in 1..Len(Digits) : Digits[i] = c) - 1]

IsDigit(c) == c \in DOMAIN DigitValues

DigitValue(c) == DigitValues[c]

\* The longest prefix of s made of digits.
RECURSIVE DigitPrefix(_)
DigitPrefix(s) ==
  IF s # <<>> /\ IsDigit(Head(s))
    THEN <<Head(s)>> \o DigitPrefix(Tail(s))
    ELSE <<>>

RECURSIVE DigitsToInt(_)
DigitsToInt(d) ==
  IF d = <<>> THEN 0
  ELSE 10 * DigitsToInt(SubSeq(d, 1, Len(d) - 1)) + DigitValue(d[Len(d)])

\* Fractional digits as thousandths (the model's value strings have at most three).
FracToThousandths(d) ==
  LET d3 == SubSeq(d \o <<"0", "0", "0">>, 1, 3) IN DigitsToInt(d3)

InfinityWord == <<"I", "n", "f", "i", "n", "i", "t", "y">>

StartsWith(s, p) == Len(s) >= Len(p) /\ SubSeq(s, 1, Len(p)) = p

\* A conversion that takes the whole string or nothing, as Number(s) does.
parseUnsigned_wholeString(s) ==
  IF s = InfinityWord THEN PosInf
  ELSE LET ip == DigitPrefix(s)
           r1 == SubSeq(s, Len(ip) + 1, Len(s))
           fp == IF r1 # <<>> /\ Head(r1) = "." THEN DigitPrefix(Tail(r1)) ELSE <<>>
           used == Len(ip) + (IF r1 # <<>> /\ Head(r1) = "." THEN 1 + Len(fp) ELSE 0)
       IN IF (ip = <<>> /\ fp = <<>>) \/ used # Len(s) THEN NaN
          ELSE Fin(1000 * DigitsToInt(ip) + FracToThousandths(fp))

\* parseFloat on an unsigned string: "Infinity", or the longest prefix
\* digits [ "." digits ] with at least one digit, else NaN.  Whatever follows
\* the prefix is ignored.  (No value string of the model has an exponent.)
parseUnsigned(s) ==
  IF StartsWith(s, InfinityWord) THEN PosInf
  ELSE LET ip == DigitPrefix(s)
           r1 == SubSeq(s, Len(ip) + 1, Len(s))
           fp == IF r1 # <<>> /\ Head(r1) = "." THEN DigitPrefix(Tail(r1)) ELSE <<>>
       IN IF ip = <<>> /\ fp = <<>> THEN NaN
          ELSE Fin(1000 * DigitsToInt(ip) + FracToThousandths(fp))

Negate(x) == IF x.k = "nan" THEN x ELSE [k |-> x.k, v |-> 0 - x.v]

\* parseFloat: leading white space skipped, optional sign, numeric prefix.
parseFloat(str) ==
  LET s == trimStart(str)
  IN IF s = <<>> THEN NaN
     ELSE IF Head(s) = "-" THEN Negate(parseUnsigned(Tail(s)))
     ELSE IF Head(s) = "+" THEN parseUnsigned(Tail(s))
     ELSE parseUnsigned(s)

\* a + b on doubles
Add(a, b) ==
  IF a.k = "nan" \/ b.k = "nan" THEN NaN
  ELSE IF a.k = "inf" /\ b.k = "inf" THEN (IF a.v = b.v THEN a ELSE NaN)
  ELSE IF a.k = "inf" THEN a
  ELSE IF b.k = "inf" THEN b
  ELSE Fin(a.v + b.v)

\* values.reduce((sum, val) => sum + val, 0)
RECURSIVE SumValues(_)
SumValues(values) ==
  IF values = <<>> THEN Fin(0)
  ELSE Add(SumValues(SubSeq(values, 1, Len(values) - 1)), values[Len(values)])

Pow10(n) == IF n = 0 THEN 1 ELSE IF n = 1 THEN 10 ELSE IF n = 2 THEN 100 ELSE 1000

\* Rounding with a tie going away from zero.
MathRound_halfAwayFromZero(num, den) ==
  IF num >= 0 THEN (2 * num + den) \div (2 * den)
  ELSE 0 - ((2 * (0 - num) + den) \div (2 * den))

\* Math.round(num / den) for den > 0: the nearest integer, a tie going up.
MathRound(num, den) == (2 * num + den) \div (2 * den)

\* ------------------------------------------------------------------ constants

DECIMAL_PLACES == 2

MAX_FILE_SIZE == 10 * 1024 * 1024

monitoringlocationid ==
  <<"m", "o", "n", "i", "t", "o", "r", "i", "n", "g", "l", "o", "c", "a",
    "t", "i", "o", "n", "i", "d">>

characteristicname ==
  <<"c", "h", "a", "r", "a", "c", "t", "e", "r", "i", "s", "t", "i", "c",
    "n", "a", "m", "e">>

resultvalue ==
  <<"r", "e", "s", "u", "l", "t", "v", "a", "l", "u", "e">>

REQUIRED_COLUMNS == <<monitoringlocationid, characteristicname, resultvalue>>

TARGET_CHARACTERISTIC ==
  <<"t", "e", "m", "p", "e", "r", "a", "t", "u", "r", "e", ",", " ", "w",
    "a", "t", "e", "r">>

ERROR_MESSAGES ==
  [INVALID_FILE_TYPE |-> "Please select a CSV file.",
   FILE_TOO_LARGE |-> "File size must be less than 10MB.",
   EMPTY_FILE |-> "CSV file is empty",
   NO_FILE_PROVIDED |-> "No CSV file provided",
   FILE_READ_ERROR |-> "Failed to read file content",
   INSUFFICIENT_DATA |-> "CSV file must contain at least a header row and one data row",
   MISSING_REQUIRED_COLUMNS |-> "CSV must contain required columns",
   NO_TEMPERATURE_DATA |-> "No temperature data found. Please ensure your CSV contains rows with CharacteristicName=\"Temperature, water\" and valid ResultValue numbers.",
   NO_VALID_DATA |-> "No valid temperature data found in the CSV file",
   CSV_PARSING_FAILED |-> "CSV parsing failed",
   PROCESSING_ERROR |-> "Unknown error occurred while processing CSV",
   PROCESSING_FAILED |-> "Failed to process file",
   SERVER_ERROR |-> "Server error. Please try again later.",
   VALIDATION_ERROR |-> "File validation failed",
   INVALID_REQUEST |-> "Invalid request format",
   UNKNOWN_ERROR |-> "Unknown error occurred"]

METHOD_NOT_ALLOWED == "Method not allowed"

\* A message: its text and, for the missing-columns message, the column
\* names joined after it.
Message(text) == [text |-> text, columns |-> <<>>]

MessageWithColumns(text, columns) == [text |-> text, columns |-> columns]

NoMessage == Message("")

\* ------------------------------------------------------------------ errors

NoError == [type |-> "none", status |-> 0, message |-> NoMessage]

\* new Error(message)
PlainError(message) == [type |-> "Error", status |-> 0, message |-> message]

\* error(status, { message }) of @sveltejs/kit
HttpError(status, message) == [type |-> "HttpError", status |-> status, message |-> message]

\* ------------------------------------------------------------------ inputs

HeaderLocation ==
  <<"M", "o", "n", "i", "t", "o", "r", "i", "n", "g", "L", "o", "c", "a",
    "t", "i", "o", "n", "I", "D">>

HeaderCharacteristic ==
  <<"C", "h", "a", "r", "a", "c", "t", "e", "r", "i", "s", "t", "i", "c",
    "N", "a", "m", "e">>

HeaderValue ==
  <<"R", "e", "s", "u", "l", "t", "V", "a", "l", "u", "e">>

HeaderLocationPadded ==
  <<" ", "M", "O", "N", "I", "T", "O", "R", "I", "N", "G", "L", "O", "C",
    "A", "T", "I", "O", "N", "I", "D", " ">>

HeaderValueUpper ==
  <<"R", "E", "S", "U", "L", "T", "V", "A", "L", "U", "E", " ">>

HeaderLocationWrong ==
  <<"L", "o", "c", "a", "t", "i", "o", "n", "I", "D">>

HeaderCharacteristicWrong ==
  <<"C", "h", "a", "r", "a", "c", "t", "e", "r", "i", "s", "t", "i", "c">>

HeaderValueWrong ==
  <<"V", "a", "l", "u", "e">>

LOC001 ==
  <<"L", "O", "C", "0", "0", "1">>

LOC002 ==
  <<"L", "O", "C", "0", "0", "2">>

LOC002Padded ==
  <<" ", "L", "O", "C", "0", "0", "2", " ">>

TemperatureWater ==
  <<"T", "e", "m", "p", "e", "r", "a", "t", "u", "r", "e", ",", " ", "w",
    "a", "t", "e", "r">>

TemperatureWaterPadded ==
  <<" ", "T", "E", "M", "P", "E", "R", "A", "T", "U", "R", "E", ",", " ",
    "W", "a", "t", "e", "r", " ">>

PH ==
  <<"p", "H">>

V0125 ==
  <<"0", ".", "1", "2", "5">>

V0375 ==
  <<"0", ".", "3", "7", "5">>

VNeg0125 ==
  <<"-", "0", ".", "1", "2", "5">>

VInvalid ==
  <<"i", "n", "v", "a", "l", "i", "d">>

VPrefix ==
  <<"1", ".", "5", "a", "b", "c">>

VInfinity ==
  <<"I", "n", "f", "i", "n", "i", "t", "y">>

ValueCells == {V0125, V0375, VNeg0125, VInvalid, VPrefix, VInfinity, <<>>}

\* The data rows of the sample files, as cells in the order location,
\* characteristic, value.
SampleRows ==
  {<<LOC001, TemperatureWater, v>> : v \in ValueCells}
  \cup {<<LOC002Padded, TemperatureWater, V0375>>,
        <<LOC001, TemperatureWaterPadded, V0375>>,
        <<<<>>, TemperatureWater, V0125>>,
        <<LOC002Padded, PH, V0375>>,
        <<LOC001, <<>>, V0125>>}

\* The header lines of the sample files.
HeaderRows ==
  {<<HeaderLocation, HeaderCharacteristic, HeaderValue>>,
   <<HeaderLocationPadded, characteristicname, HeaderValueUpper>>,
   <<HeaderLocation, HeaderCharacteristic>>,
   <<HeaderLocationWrong, HeaderCharacteristicWrong, HeaderValueWrong>>}

\* The data rows a sample file with the given header line can hold: one cell
\* per header, and fewer different rows under the other spellings.
RowsUnder(headers) ==
  IF Len(headers) = 2 THEN {SubSeq(r, 1, 2) : r \in SampleRows}
  ELSE IF headers[1] = HeaderLocationWrong THEN {<<LOC001, TemperatureWater, V0125>>}
  ELSE IF headers[1] = HeaderLocationPadded
    THEN {<<LOC001, TemperatureWater, V0125>>, <<LOC002Padded, TemperatureWater, V0375>>,
          <<<<>>, TemperatureWater, V0125>>, <<LOC002Padded, PH, V0375>>}
  ELSE SampleRows

RECURSIVE JoinCells(_)
JoinCells(cells) ==
  IF cells = <<>> THEN <<>>
  ELSE IF Len(cells) = 1 THEN cells[1]
  ELSE cells[1] \o <<",">> \o JoinCells(Tail(cells))

\* File contents.  text is the content up to the first line break (all of it
\* when the file holds white space only); headers and rows are its cells.
BlankContents ==
  {[kind |-> "blank", text |-> t, headers |-> <<>>, rows |-> <<>>] :
     t \in {<<>>, <<" ">>, <<"\n", " ">>}}

MalformedContent ==
  [kind |-> "malformed", text |-> <<"\"">>, headers |-> <<>>, rows |-> <<>>]

\* The files that hold a header line and no data row yet.
HeaderOnlyContents ==
  {[kind |-> "csv", text |-> JoinCells(h), headers |-> h, rows |-> <<>>] :
     h \in HeaderRows}

NoContent == [kind |-> "none", text |-> <<>>, headers |-> <<>>, rows |-> <<>>]


FileNameCsv == <<"t", "e", "s", "t", ".", "c", "s", "v">>

FileNameUpper == <<"D", "A", "T", "A", ".", "C", "S", "V">>

FileNameTxt == <<"t", "e", "s", "t", ".", "t", "x", "t">>

FileNames == {FileNameCsv, FileNameUpper, FileNameTxt}

\* The size of a small sample file: 0 for the empty text and for no other.
SmallSize(content) == Len(content.text)

\* The files named test.csv that a client starts from; AddRow gives the
\* CSV files among them their data rows.
SmallFiles ==
  {[name |-> FileNameCsv, size |-> SmallSize(c), content |-> c] :
     c \in BlankContents \cup {MalformedContent} \cup HeaderOnlyContents}

\* Contents that stand for the content of a file of any size.
AnySizeContents ==
  {[kind |-> "csv",
    text |-> JoinCells(<<HeaderLocation, HeaderCharacteristic, HeaderValue>>),
    headers |-> <<HeaderLocation, HeaderCharacteristic, HeaderValue>>,
    rows |-> <<<<LOC001, TemperatureWater, V0125>>>>],
   [kind |-> "blank", text |-> <<" ">>, headers |-> <<>>, rows |-> <<>>]}

\* The other names, and the sizes around the limit.
OtherFiles ==
  {[name |-> n, size |-> s, content |-> c] :
     n \in FileNames,
     s \in {SmallSize(c) : c \in AnySizeContents}
             \cup {MAX_FILE_SIZE - 1, MAX_FILE_SIZE, MAX_FILE_SIZE + 1},
     c \in AnySizeContents}
  \cup {[name |-> n, size |-> SmallSize(c), content |-> c] :
          n \in FileNames, c \in BlankContents}

InitialFiles == SmallFiles \cup OtherFiles

NoFile == [name |-> Undefined, size |-> 0, content |-> NoContent]

Methods == {"POST", "GET"}

NoContentType == "null"

ContentTypes ==
  {NoContentType, "multipart/form-data", "multipart/form-data; boundary=x",
   "application/json"}

\* contentType.includes('multipart/form-data')
IncludesMultipart(contentType) ==
  contentType \in {"multipart/form-data", "multipart/form-data; boundary=x"}

\* A request: its method and content type, whether its body parses as form
\* data, whether the form data holds a file under csvFile and whether the
\* text of that file can be read.
AllRequests ==
  [method : Methods, contentType : ContentTypes, formDataOk : BOOLEAN,
   hasFile : BOOLEAN, readable : BOOLEAN]

\* The requests the tests send with a CSV file: only the text of the file may
\* be unreadable.
TestRequests ==
  {req \in AllRequests :
     /\ req.method = "POST"
     /\ req.contentType = "multipart/form-data"
     /\ req.formDataOk
     /\ req.hasFile}

\* The requests a file is sent with: any request with a file that holds no
\* data row or stands for a size, a request as the tests send it with a file
\* that holds data rows.
Requests(file) == IF file \in InitialFiles THEN AllRequests ELSE TestRequests

NoRequest ==
  [method |-> "none", contentType |-> NoContentType, formDataOk |-> FALSE,
   hasFile |-> FALSE, readable |-> FALSE]

\* ------------------------------------------------------------------ file checks

\* name.toLowerCase().endsWith('.csv')
EndsWithCsv(name) ==
  LET n == toLowerCase(name)
      ext == <<".", "c", "s", "v">>
  IN Len(n) >= Len(ext) /\ SubSeq(n, Len(n) - Len(ext) + 1, Len(n)) = ext

\* A size check that turns away a file of exactly the largest size.
validateFileBasics_limitExcluded(file, content) ==
  IF ~EndsWithCsv(file.name) THEN Message(ERROR_MESSAGES.INVALID_FILE_TYPE)
  ELSE IF file.size >= MAX_FILE_SIZE THEN Message(ERROR_MESSAGES.FILE_TOO_LARGE)
  ELSE IF trim(content.text) = <<>> THEN Message(ERROR_MESSAGES.EMPTY_FILE)
  ELSE NoMessage

\* The checks of validateFileBasics with the size before the file type.
validateFileBasics_sizeFirst(file, content) ==
  IF file.size > MAX_FILE_SIZE THEN Message(ERROR_MESSAGES.FILE_TOO_LARGE)
  ELSE IF ~EndsWithCsv(file.name) THEN Message(ERROR_MESSAGES.INVALID_FILE_TYPE)
  ELSE IF trim(content.text) = <<>> THEN Message(ERROR_MESSAGES.EMPTY_FILE)
  ELSE NoMessage

\* The error message of validateFileBasics, NoMessage when the file is valid.
validateFileBasics(file, content) ==
  IF ~EndsWithCsv(file.name) THEN Message(ERROR_MESSAGES.INVALID_FILE_TYPE)
  ELSE IF file.size > MAX_FILE_SIZE THEN Message(ERROR_MESSAGES.FILE_TOO_LARGE)
  ELSE IF trim(content.text) = <<>> THEN Message(ERROR_MESSAGES.EMPTY_FILE)
  ELSE NoMessage

\* The two checks of the request in the other order.
validateRequest_contentTypeFirst(method, contentType) ==
  IF contentType = NoContentType \/ ~IncludesMultipart(contentType)
    THEN Message(ERROR_MESSAGES.INVALID_REQUEST)
  ELSE IF method # "POST" THEN Message(METHOD_NOT_ALLOWED)
  ELSE NoMessage

\* The error message of validateRequest, NoMessage when the request is valid.
validateRequest(method, contentType) ==
  IF method # "POST" THEN Message(METHOD_NOT_ALLOWED)
  ELSE IF contentType = NoContentType \/ ~IncludesMultipart(contentType)
    THEN Message(ERROR_MESSAGES.INVALID_REQUEST)
  ELSE NoMessage

\* ------------------------------------------------------------------ CSV rows

\* A header mapping that folds the case and keeps the white space.
mapHeaders_untrimmed(header) == toLowerCase(header)

\* mapHeaders: ({ header }) => header.toLowerCase().trim()
mapHeaders(header) == trim(toLowerCase(header))

\* One record of neat-csv: the cells of a row keyed by the mapped headers (of
\* two headers mapped to one key, the later cell stays).
RawRecord(keys, cells) ==
  LET last(key) == CHOOSE j \in 1..Len(keys) :
                     /\ keys[j] = key
                     /\ \A i \in 1..Len(keys) : keys[i] = key => i <= j
  IN [key \in {keys[j] : j \in 1..Len(keys)} |-> cells[last(key)]]

\* neatCsv(csvContent, { mapHeaders }): the data rows as records.
neatCsv(content) ==
  LET keys == [j \in 1..Len(content.headers) |-> mapHeaders(content.headers[j])]
  IN [i \in 1..Len(content.rows) |-> RawRecord(keys, content.rows[i])]

\* row[col], undefined when the record has no such key.
Get(row, col) == IF col \in DOMAIN row THEN row[col] ELSE Undefined

\* !firstRow[col]
IsMissingIn(firstRow, col) == ~Truthy(Get(firstRow, col))

\* REQUIRED_COLUMNS.filter(col => !firstRow[col])
missingColumns(firstRow) ==
  LET Missing(col) == IsMissingIn(firstRow, col)
  IN SelectSeq(REQUIRED_COLUMNS, Missing)

\* A filter that lets every characteristic through.
isTemperatureData_anyCharacteristic(characteristic) == TRUE

isTemperatureData(characteristic) ==
  trim(toLowerCase(characteristic)) = TARGET_CHARACTERISTIC

\* rows.map(row => ({ locationId, characteristic, valueStr }))
TrimmedRow(row) ==
  [locationId |-> optTrim(Get(row, monitoringlocationid)),
   characteristic |-> optTrim(Get(row, characteristicname)),
   valueStr |-> optTrim(Get(row, resultvalue))]

\* A first filter that lets a row without a location id through.
PassesFilter_anyLocation(row) ==
  /\ Truthy(row.characteristic)
  /\ Truthy(row.valueStr)
  /\ isTemperatureData(row.characteristic)

\* The first .filter(...)
PassesFilter(row) ==
  /\ Truthy(row.locationId)
  /\ Truthy(row.characteristic)
  /\ Truthy(row.valueStr)
  /\ isTemperatureData(row.characteristic)

\* The value rounded to 2 decimals as soon as it is parsed.
Observation_roundedValue(row) ==
  LET value == parseFloat(row.valueStr)
  IN [locationId |-> row.locationId,
      value |-> IF value.k # "fin" THEN value ELSE Fin(10 * MathRound(value.v, 10))]

\* .map(row => ({ locationId, value: parseFloat(row.valueStr) }))
Observation(row) == [locationId |-> row.locationId, value |-> parseFloat(row.valueStr)]

\* A second filter that keeps NaN.
IsNumber_keepsNaN(obs) == TRUE

\* The second .filter(({ value }) => !isNaN(value))
IsNumber(obs) == ~isNaN(obs.value)

\* rows.map(...).filter(...).map(...).filter(...)
extractTemperatureRows(rows) ==
  LET trimmed == [i \in 1..Len(rows) |-> TrimmedRow(rows[i])]
      kept == SelectSeq(trimmed, PassesFilter)
      parsed == [i \in 1..Len(kept) |-> Observation(kept[i])]
  IN SelectSeq(parsed, IsNumber)

\* A grouping that puts every value under every key.
groupByLocation_everyValue(temperatureRows) ==
  LET keys == {temperatureRows[i].locationId : i \in 1..Len(temperatureRows)}
  IN [key \in keys |-> [i \in 1..Len(temperatureRows) |-> temperatureRows[i].value]]

\* temperatureRows.reduce(...): the values of each location, in row order.
groupByLocation(temperatureRows) ==
  LET keys == {temperatureRows[i].locationId : i \in 1..Len(temperatureRows)}
      OfKey(key) ==
        LET Is(obs) == obs.locationId = key
            picked == SelectSeq(temperatureRows, Is)
        IN [i \in 1..Len(picked) |-> picked[i].value]
  IN [key \in keys |-> OfKey(key)]

\* An average rounded to 3 decimals.
roundedAverage_threeDecimals(sum, count) ==
  IF sum.k # "fin" THEN sum ELSE Fin(MathRound(sum.v, count))

\* Math.round(average * 10^DECIMAL_PLACES) / 10^DECIMAL_PLACES where
\* average = sum / count.  A finite sum is in thousandths, and so is the result.
roundedAverage(sum, count) ==
  IF sum.k # "fin" THEN sum
  ELSE Fin((Pow10(3) \div Pow10(DECIMAL_PLACES))
           * MathRound(sum.v * Pow10(DECIMAL_PLACES), Pow10(3) * count))

\* Object.entries(groupedData).reduce(...)
calculateAverages(grouped) ==
  [key \in DOMAIN grouped |-> roundedAverage(SumValues(grouped[key]), Len(grouped[key]))]

NoResults == <<>>

\* The Error neat-csv rejects with when it cannot read the content.
ParserError == PlainError(Message("CSV parsing failed"))

\* The two checks in the other order: the first row is read before the rows
\* are counted, and reading a column of a row that is not there throws.
validateRows_columnsFirst(parsedRows) ==
  IF Len(parsedRows) = 0
    THEN PlainError(Message("Cannot read properties of undefined"))
  ELSE IF Len(missingColumns(parsedRows[1])) > 0
    THEN PlainError(MessageWithColumns(ERROR_MESSAGES.MISSING_REQUIRED_COLUMNS,
                                       missingColumns(parsedRows[1])))
  ELSE NoError

\* The two checks before the rows are filtered: at least one row, then the
\* required columns in the first row.
validateRows(parsedRows) ==
  IF Len(parsedRows) = 0
    THEN PlainError(Message(ERROR_MESSAGES.INSUFFICIENT_DATA))
  ELSE IF Len(missingColumns(parsedRows[1])) > 0
    THEN PlainError(MessageWithColumns(ERROR_MESSAGES.MISSING_REQUIRED_COLUMNS,
                                       missingColumns(parsedRows[1])))
  ELSE NoError

\* processWaterQualityCSV without its check that a row passed the filters.
processWaterQualityCSV_noTemperatureCheck(content) ==
  IF content.kind = "malformed"
    THEN [thrown |-> ParserError,
          rows |-> <<>>, temperatureRows |-> <<>>,
          groupedData |-> NoResults, results |-> NoResults]
  ELSE
    LET parsedRows == neatCsv(content)
        temps == extractTemperatureRows(parsedRows)
        grouped == groupByLocation(temps)
    IN IF validateRows(parsedRows) # NoError
         THEN [thrown |-> validateRows(parsedRows),
               rows |-> parsedRows, temperatureRows |-> <<>>,
               groupedData |-> NoResults, results |-> NoResults]
       ELSE [thrown |-> NoError,
             rows |-> parsedRows, temperatureRows |-> temps,
             groupedData |-> grouped, results |-> calculateAverages(grouped)]

\* processWaterQualityCSV: what it throws (NoError when it returns) and the
\* values it computes on the way.
processWaterQualityCSV(content) ==
  IF content.kind = "malformed"
    THEN [thrown |-> ParserError,
          rows |-> <<>>, temperatureRows |-> <<>>,
          groupedData |-> NoResults, results |-> NoResults]
  ELSE
    LET parsedRows == neatCsv(content)
        temps == extractTemperatureRows(parsedRows)
        grouped == groupByLocation(temps)
    IN IF validateRows(parsedRows) # NoError
         THEN [thrown |-> validateRows(parsedRows),
               rows |-> parsedRows, temperatureRows |-> <<>>,
               groupedData |-> NoResults, results |-> NoResults]
       ELSE IF Len(temps) = 0
         THEN [thrown |-> PlainError(Message(ERROR_MESSAGES.NO_TEMPERATURE_DATA)),
               rows |-> parsedRows, temperatureRows |-> temps,
               groupedData |-> NoResults, results |-> NoResults]
       ELSE [thrown |-> NoError,
             rows |-> parsedRows, temperatureRows |-> temps,
             groupedData |-> grouped, results |-> calculateAverages(grouped)]

\* ------------------------------------------------------------------ responses

NoResponse == [status |-> 0, message |-> NoMessage, body |-> NoResults]

\* The response SvelteKit sends for a thrown error(status, { message }).
ErrorResponse(err) == [status |-> err.status, message |-> err.message, body |-> NoResults]

\* An error handler that turns every error into error(500, { message }).
handleApiError_always500(err) ==
  IF err.type \in {"HttpError", "Error"} THEN ErrorResponse(HttpError(500, err.message))
  ELSE ErrorResponse(HttpError(500, Message(ERROR_MESSAGES.PROCESSING_ERROR)))

\* handleApiError: an error that carries a status is thrown on as it is, any
\* other becomes error(500, { message }).
handleApiError(err) ==
  IF err.type = "HttpError" THEN ErrorResponse(err)
  ELSE IF err.type = "Error" THEN ErrorResponse(HttpError(500, err.message))
  ELSE ErrorResponse(HttpError(500, Message(ERROR_MESSAGES.PROCESSING_ERROR)))

\* json(results, { status: 200, ... })
json(results) == [status |-> 200, message |-> NoMessage, body |-> results]

\* ------------------------------------------------------------------ upload component

\* The MIME types of the files a user picks.
TextCsv == <<"t", "e", "x", "t", "/", "c", "s", "v">>

ApplicationCsv == <<"a", "p", "p", "l", "i", "c", "a", "t", "i", "o", "n", "/", "c", "s", "v">>

TextPlain == <<"t", "e", "x", "t", "/", "p", "l", "a", "i", "n">>

ApplicationPdf == <<"a", "p", "p", "l", "i", "c", "a", "t", "i", "o", "n", "/", "p", "d", "f">>

UnknownType == <<>>

\* VALIDATION.ALLOWED_MIME_TYPES of the upload component
ALLOWED_MIME_TYPES == {TextCsv, ApplicationCsv, TextPlain}

\* {#if retryCount < 3}
MAX_RETRIES == 3

\* selectedFile = null
NullFile == [name |-> Undefined, type |-> UnknownType, size |-> 0]

\* The files a user picks: two that pass validateFile and files that break
\* one or several of its rules.
PickedFiles ==
  {[name |-> FileNameCsv, type |-> TextCsv, size |-> 51],
   [name |-> FileNameUpper, type |-> TextPlain, size |-> MAX_FILE_SIZE],
   [name |-> FileNameTxt, type |-> TextPlain, size |-> 51],
   [name |-> FileNameCsv, type |-> UnknownType, size |-> 51],
   [name |-> FileNameCsv, type |-> ApplicationPdf, size |-> MAX_FILE_SIZE + 1],
   [name |-> FileNameCsv, type |-> ApplicationCsv, size |-> MAX_FILE_SIZE + 1],
   [name |-> FileNameCsv, type |-> TextCsv, size |-> 0],
   [name |-> FileNameTxt, type |-> ApplicationPdf, size |-> 0]}

\* `Invalid file type. Expected CSV file, got: ${file.type || 'unknown'}`
InvalidMimeTypeMessage(type) ==
  MessageWithColumns("Invalid file type. Expected CSV file, got",
                     <<IF type = <<>> THEN <<"u", "n", "k", "n", "o", "w", "n">> ELSE type>>)

\* validateFile of the upload component: its error message, NoMessage when
\* the file is valid.
validateFile(file) ==
  IF ~EndsWithCsv(file.name) THEN Message(ERROR_MESSAGES.INVALID_FILE_TYPE)
  ELSE IF file.type \notin ALLOWED_MIME_TYPES THEN InvalidMimeTypeMessage(file.type)
  ELSE IF file.size > MAX_FILE_SIZE THEN Message(ERROR_MESSAGES.FILE_TOO_LARGE)
  ELSE IF file.size = 0 THEN Message("File is empty")
  ELSE NoMessage

\* What fetch gives back: a rejection, or a response with its status and its
\* body.  A body that is JSON holds the averages or an object with an error
\* field, a message field, both or neither; a body that is no JSON makes
\* response.json() throw.
FetchRejected ==
  [kind |-> "rejected", ok |-> FALSE, status |-> 0, json |-> FALSE,
   error |-> Message("Failed to fetch"), message |-> NoMessage]

OkResponses ==
  {[kind |-> "response", ok |-> TRUE, status |-> 200, json |-> j,
    error |-> NoMessage, message |-> NoMessage] : j \in BOOLEAN}

ErrorBodies ==
  {[error |-> NoMessage, message |-> NoMessage],
   [error |-> NoMessage, message |-> Message(ERROR_MESSAGES.EMPTY_FILE)],
   [error |-> NoMessage, message |-> Message(ERROR_MESSAGES.NO_TEMPERATURE_DATA)],
   [error |-> Message(ERROR_MESSAGES.NO_TEMPERATURE_DATA), message |-> NoMessage],
   [error |-> Message(ERROR_MESSAGES.INSUFFICIENT_DATA),
    message |-> Message(ERROR_MESSAGES.PROCESSING_ERROR)]}

ErrorResponses ==
  {[kind |-> "response", ok |-> FALSE, status |-> st, json |-> TRUE,
    error |-> b.error, message |-> b.message] :
     st \in {400, 500}, b \in ErrorBodies}
  \cup {[kind |-> "response", ok |-> FALSE, status |-> st, json |-> FALSE,
         error |-> NoMessage, message |-> NoMessage] : st \in {400, 404, 413, 500}}

FetchOutcomes == {FetchRejected} \cup OkResponses \cup ErrorResponses

NoFetchOutcome ==
  [kind |-> "none", ok |-> FALSE, status |-> 0, json |-> FALSE,
   error |-> NoMessage, message |-> NoMessage]

\* handleApiResponse: the message of a response that is not ok.
handleApiResponse(resp) ==
  IF resp.json
    THEN IF resp.error # NoMessage THEN resp.error
         ELSE Message(ERROR_MESSAGES.PROCESSING_FAILED)
  ELSE IF resp.status >= 500 THEN Message(ERROR_MESSAGES.SERVER_ERROR)
  ELSE IF resp.status = 413 THEN Message(ERROR_MESSAGES.FILE_TOO_LARGE)
  ELSE IF resp.status = 400 THEN Message(ERROR_MESSAGES.VALIDATION_ERROR)
  ELSE Message(ERROR_MESSAGES.PROCESSING_FAILED)

\* A call of one of the component's callbacks.
Call(name, message) == [name |-> name, message |-> message]

VARIABLES
  selectedFile,     \* the file the user picked, NullFile when none
  isProcessing,     \* an upload is under way
  error,            \* the error the component shows, NoMessage when none
  retryCount,       \* the retries since the count was last reset
  lastError,        \* the message of the last error, NoMessage when none
  inFlight,         \* the processFile runs under way, each at an await
  calls             \* the callbacks called since the last handler started

uiVars ==
  <<selectedFile, isProcessing, error, retryCount, lastError, inFlight, calls>>

\* ------------------------------------------------------------------ page

\* results = null
NullResults == [null |-> TRUE, data |-> NoResults]

\* error = null
NullError == [null |-> TRUE, message |-> NoMessage]

\* The averages the page is given: the hundredths 0.00, 0.10 .. 0.80.
PageValues == {Fin(100 * k) : k \in 0..8}

\* The TemperatureData objects handleFileProcessed is called with: every
\* mapping of none, one or both of two locations to an average.
PageData == UNION {[keys -> PageValues] : keys \in SUBSET {LOC001, LOC002}}

\* The strings handleError is called with, the empty string among them.
PageMessages ==
  {NoMessage,
   Message(ERROR_MESSAGES.PROCESSING_FAILED),
   Message(ERROR_MESSAGES.SERVER_ERROR),
   Message(ERROR_MESSAGES.EMPTY_FILE),
   Message(ERROR_MESSAGES.INVALID_FILE_TYPE),
   Message("Failed to fetch")}

VARIABLES
  pageResults,      \* results of the page
  pageError,        \* error of the page
  pageCalls         \* the last two handlers of the page that were called

pageVars ==
  <<pageResults, pageError, pageCalls>>

\* ------------------------------------------------------------------ data table

\* SORT_FIELDS and SORT_DIRECTIONS of DataTable
SORT_FIELDS == [LOCATION |-> "location", TEMPERATURE |-> "temperature"]

SORT_DIRECTIONS == [ASC |-> "asc", DESC |-> "desc"]

\* The titles of a sort header
CONTENT_TEXT ==
  [SORT_ASC |-> "Sort ascending", SORT_DESC |-> "Sort descending", SORT_NONE |-> "Remove sort"]

\* The props of a table that is not mounted.
NoTable == [mounted |-> FALSE, data |-> <<>>, sortable |-> TRUE, itemsPerPage |-> 10]

\* The props a table is given: no row, or the averages of up to three
\* locations; sortable or not; one row or ten rows on a page.
TableProps ==
  LET tableRows == <<[location |-> LOC001, temperature |-> Fin(380)],
                     [location |-> LOC002, temperature |-> Fin(130)],
                     [location |-> <<"S", "i", "t", "e">>, temperature |-> Fin(-130)]>>
  IN {[mounted |-> TRUE, data |-> SubSeq(tableRows, 1, n), sortable |-> sortable,
       itemsPerPage |-> perPage] :
        n \in 0..Len(tableRows), sortable \in BOOLEAN, perPage \in {1, 10}}

\* The texts typed into the search field.
SearchTerms == {<<>>, <<" ">>, <<"l", "o", "c">>, <<"2">>, <<"x">>}

\* s.includes(part)
Includes(s, part) ==
  \E i \in 0..(Len(s) - Len(part)) : SubSeq(s, i + 1, i + Len(part)) = part

\* filterData(data, searchTerm)
filterData(data, searchTerm) ==
  IF trim(searchTerm) = <<>> THEN data
  ELSE LET Matches(row) == Includes(toLowerCase(row.location), toLowerCase(searchTerm))
       IN SelectSeq(data, Matches)

\* The initial state of the table: sorted by location, ascending.
InitialTableState ==
  [sortField |-> SORT_FIELDS.LOCATION, sortDirection |-> SORT_DIRECTIONS.ASC,
   searchTerm |-> <<>>, currentPage |-> 1]

VARIABLES
  tableProps,       \* the props of the DataTable
  tableState,       \* state of the DataTable
  tableCall         \* the handler of the table that was called last

tableVars ==
  <<tableProps, tableState, tableCall>>

\* totalPages = Math.ceil(sortedData.length / itemsPerPage)
totalPages ==
  (Len(filterData(tableProps.data, tableState.searchTerm)) + tableProps.itemsPerPage - 1)
    \div tableProps.itemsPerPage

\* The title of the header of a column: what the next click on it is said
\* to do.
SortTitle(field) ==
  IF ~tableProps.sortable THEN ""
  ELSE IF tableState.sortField = field /\ tableState.sortDirection = SORT_DIRECTIONS.ASC
    THEN CONTENT_TEXT.SORT_DESC
  ELSE IF tableState.sortField = field /\ tableState.sortDirection = SORT_DIRECTIONS.DESC
    THEN CONTENT_TEXT.SORT_NONE
  ELSE CONTENT_TEXT.SORT_ASC

\* ------------------------------------------------------------------ state

VARIABLES
  upload,           \* the file the client sends
  request,          \* the request the client sends it with
  pc,               \* where the POST handler stands
  csvFile,          \* the file taken from the form data
  csvContent,       \* the content read from the file
  rows,             \* the records neat-csv returned
  temperatureRows,  \* the observations that passed both filters
  groupedData,      \* location id -> its values
  results,          \* location id -> rounded average
  thrown,           \* the error thrown inside POST's try block
  response,         \* the response of the request
  earlier           \* a request the client sent before, with its response

serverVars ==
  <<upload, request, pc, csvFile, csvContent, rows, temperatureRows, groupedData, results,
    thrown, response, earlier>>

vars == <<serverVars, uiVars, pageVars, tableVars>>

\* No request sent before is kept for sending again.
NoEarlier == [request |-> NoRequest, upload |-> NoFile, response |-> NoResponse]

Init ==
  /\ upload = NoFile
  /\ request = NoRequest
  /\ pc = "idle"
  /\ csvFile = NoFile
  /\ csvContent = NoContent
  /\ rows = <<>>
  /\ temperatureRows = <<>>
  /\ groupedData = NoResults
  /\ results = NoResults
  /\ thrown = NoError
  /\ response = NoResponse
  /\ earlier = NoEarlier
  /\ selectedFile = NullFile
  /\ isProcessing = FALSE
  /\ error = NoMessage
  /\ retryCount = 0
  /\ lastError = NoMessage
  /\ inFlight = <<>>
  /\ calls = <<>>
  /\ pageResults = NullResults
  /\ pageError = NullError
  /\ pageCalls = <<>>
  /\ tableProps = NoTable
  /\ tableState = InitialTableState
  /\ tableCall = [name |-> "none", field |-> "none"]

\* An error thrown inside POST's try block: handleApiError answers the request.
Catch(err) ==
  /\ thrown' = err
  /\ response' = handleApiError(err)
  /\ pc' = "responded"

\* The client takes a file to send.
ChooseFile ==
  /\ pc = "idle"
  /\ earlier = NoEarlier
  /\ upload' \in InitialFiles
  /\ pc' = "start"
  /\ UNCHANGED <<request, csvFile, csvContent, rows, temperatureRows, groupedData,
                 results, thrown, response, earlier, uiVars, pageVars, tableVars>>

\* The client takes the file of the earlier request to send it once more.
SendAgain ==
  /\ pc = "idle"
  /\ earlier # NoEarlier
  /\ upload' = earlier.upload
  /\ pc' = "start"
  /\ UNCHANGED <<request, csvFile, csvContent, rows, temperatureRows, groupedData,
                 results, thrown, response, earlier, uiVars, pageVars, tableVars>>

\* The client puts one more data row into a small CSV file before sending it.
AddRow ==
  /\ pc = "start"
  /\ earlier = NoEarlier
  /\ upload.content.kind = "csv"
  /\ upload.name = FileNameCsv
  /\ upload.size = SmallSize(upload.content)
  /\ Len(upload.content.rows) < MaxRows
  /\ \E row \in RowsUnder(upload.content.headers) :
       upload' = [upload EXCEPT !.content.rows = Append(@, row)]
  /\ UNCHANGED <<request, pc, csvFile, csvContent, rows, temperatureRows, groupedData,
                 results, thrown, response, earlier, uiVars, pageVars, tableVars>>

\* extractCsvFile, the first await of POST.  The client sends its file with
\* a request, the earlier request when it sends the file again.
ExtractCsvFile ==
  /\ pc = "start"
  /\ \E req \in (IF earlier = NoEarlier THEN Requests(upload) ELSE {earlier.request}) :
       /\ request' = req
       /\ IF validateRequest(req.method, req.contentType) # NoMessage
            THEN /\ Catch(HttpError(400, validateRequest(req.method, req.contentType)))
                 /\ UNCHANGED csvFile
          ELSE IF ~req.formDataOk
            THEN /\ Catch(HttpError(400, Message(ERROR_MESSAGES.INVALID_REQUEST)))
                 /\ UNCHANGED csvFile
          ELSE IF ~req.hasFile
            THEN /\ Catch(HttpError(400, Message(ERROR_MESSAGES.NO_FILE_PROVIDED)))
                 /\ UNCHANGED csvFile
          ELSE /\ csvFile' = upload
               /\ pc' = "extracted"
               /\ UNCHANGED <<thrown, response>>
  /\ UNCHANGED <<upload, csvContent, rows, temperatureRows, groupedData, results,
                 earlier, uiVars, pageVars, tableVars>>

\* readAndValidateCsvContent, the second await of POST.
ReadAndValidateCsvContent ==
  /\ pc = "extracted"
  /\ LET content == csvFile.content
     IN
     IF ~request.readable
       THEN /\ Catch(HttpError(400, Message(ERROR_MESSAGES.FILE_READ_ERROR)))
            /\ UNCHANGED csvContent
     ELSE IF validateFileBasics(csvFile, content) # NoMessage
       THEN /\ Catch(HttpError(400, validateFileBasics(csvFile, content)))
            /\ UNCHANGED csvContent
     ELSE /\ csvContent' = content
          /\ pc' = "read"
          /\ UNCHANGED <<thrown, response>>
  /\ UNCHANGED <<upload, request, csvFile, rows, temperatureRows, groupedData,
                 results, earlier, uiVars, pageVars, tableVars>>

\* processWaterQualityCSV, the third await of POST.
ProcessWaterQualityCSV ==
  /\ pc = "read"
  /\ LET out == processWaterQualityCSV(csvContent)
     IN /\ rows' = out.rows
        /\ temperatureRows' = out.temperatureRows
        /\ groupedData' = out.groupedData
        /\ results' = out.results
        /\ IF out.thrown # NoError
             THEN Catch(out.thrown)
             ELSE /\ pc' = "processed"
                  /\ UNCHANGED <<thrown, response>>
  /\ UNCHANGED <<upload, request, csvFile, csvContent, earlier, uiVars, pageVars, tableVars>>

\* The rest of POST's try block: the empty-result check and the JSON response.
ReturnJson ==
  /\ pc = "processed"
  /\ IF Cardinality(DOMAIN results) = 0
       THEN Catch(HttpError(400, Message(ERROR_MESSAGES.NO_VALID_DATA)))
       ELSE /\ response' = json(results)
            /\ pc' = "responded"
            /\ UNCHANGED thrown
  /\ UNCHANGED <<upload, request, csvFile, csvContent, rows, temperatureRows,
                 groupedData, results, earlier, uiVars, pageVars, tableVars>>

\* A call of POST that keeps the results of the call before.
EndOfRequest_keepsResults ==
  /\ upload' = NoFile
  /\ request' = NoRequest
  /\ pc' = "idle"
  /\ csvFile' = NoFile
  /\ csvContent' = NoContent
  /\ rows' = <<>>
  /\ temperatureRows' = <<>>
  /\ thrown' = NoError
  /\ response' = NoResponse
  /\ UNCHANGED <<groupedData, results>>

\* POST has returned or thrown: its constants are local to the call and the
\* module holds no variable, so nothing of the request is left.
EndOfRequest ==
  /\ upload' = NoFile
  /\ request' = NoRequest
  /\ pc' = "idle"
  /\ csvFile' = NoFile
  /\ csvContent' = NoContent
  /\ rows' = <<>>
  /\ temperatureRows' = <<>>
  /\ groupedData' = NoResults
  /\ results' = NoResults
  /\ thrown' = NoError
  /\ response' = NoResponse

\* The next request starts from nothing.
NextRequest ==
  /\ pc = "responded"
  /\ EndOfRequest
  /\ UNCHANGED <<earlier, uiVars, pageVars, tableVars>>

\* The client keeps a request and its response, to send the request once
\* more.
KeepRequest ==
  /\ pc = "responded"
  /\ earlier = NoEarlier
  /\ upload \in InitialFiles
  /\ earlier' = [request |-> request, upload |-> upload, response |-> response]
  /\ EndOfRequest
  /\ UNCHANGED <<uiVars, pageVars, tableVars>>

Next ==
  \/ ChooseFile
  \/ SendAgain
  \/ AddRow
  \/ ExtractCsvFile
  \/ ReadAndValidateCsvContent
  \/ ProcessWaterQualityCSV
  \/ ReturnJson
  \/ NextRequest
  \/ KeepRequest

Spec == Init /\ [][Next]_vars

\* ------------------------------------------------------------------ upload component: handlers

RemoveAt(seq, i) == SubSeq(seq, 1, i - 1) \o SubSeq(seq, i + 1, Len(seq))

\* processFile up to its first await: nothing without a selected file, else
\* the upload starts.  The callbacks counted are those of this handler.
StartProcessFile ==
  IF selectedFile = NullFile
    THEN /\ calls' = <<>>
         /\ UNCHANGED <<isProcessing, error, inFlight>>
    ELSE /\ isProcessing' = TRUE
         /\ error' = NoMessage
         /\ calls' = <<Call("onprocessingstart", NoMessage)>>
         /\ inFlight' = Append(inFlight, [file |-> selectedFile, at |-> "fetch",
                                          response |-> NoFetchOutcome])

\* handleProcessingError without the finally block of processFile.
FailRun_noFinally(i, message) ==
  /\ error' = message
  /\ lastError' = message
  /\ calls' = Append(calls, Call("onerror", message))
  /\ inFlight' = RemoveAt(inFlight, i)
  /\ UNCHANGED <<selectedFile, retryCount, isProcessing>>

\* handleProcessingError and the finally block of processFile, for run i.
FailRun(i, message) ==
  /\ error' = message
  /\ lastError' = message
  /\ calls' = Append(calls, Call("onerror", message))
  /\ isProcessing' = FALSE
  /\ inFlight' = RemoveAt(inFlight, i)
  /\ UNCHANGED <<selectedFile, retryCount>>

\* A success that leaves the form as it is: no resetFormState.
CompleteRun_noReset(i) ==
  /\ calls' = Append(calls, Call("onfileprocessed", NoMessage))
  /\ isProcessing' = FALSE
  /\ inFlight' = RemoveAt(inFlight, i)
  /\ UNCHANGED <<selectedFile, error, retryCount, lastError>>

\* onfileprocessed, resetFormState and the finally block of processFile, for
\* run i.
CompleteRun(i) ==
  /\ calls' = Append(calls, Call("onfileprocessed", NoMessage))
  /\ selectedFile' = NullFile
  /\ error' = NoMessage
  /\ retryCount' = 0
  /\ lastError' = NoMessage
  /\ isProcessing' = FALSE
  /\ inFlight' = RemoveAt(inFlight, i)

\* handleFileInputChange: the user picks a file, or none, in the file picker.
HandleFileInputChange ==
  /\ ~isProcessing
  /\ \E file \in PickedFiles \cup {NullFile} :
       /\ error' = NoMessage
       /\ lastError' = NoMessage
       /\ retryCount' = 0
       /\ IF file = NullFile
            THEN /\ calls' = <<Call("onprocessingstart", NoMessage)>>
                 /\ UNCHANGED selectedFile
          ELSE IF validateFile(file) # NoMessage
            THEN /\ calls' = <<Call("onprocessingstart", NoMessage),
                               Call("onerror", validateFile(file))>>
                 /\ UNCHANGED selectedFile
          ELSE /\ calls' = <<Call("onprocessingstart", NoMessage)>>
               /\ selectedFile' = file
  /\ UNCHANGED <<isProcessing, inFlight, serverVars, pageVars, tableVars>>

\* A Process File button that is not disabled while processing.
ProcessFileClick_whileProcessing ==
  /\ selectedFile # NullFile
  /\ Len(inFlight) < MAX_RETRIES
  /\ StartProcessFile
  /\ UNCHANGED <<selectedFile, retryCount, lastError, serverVars, pageVars, tableVars>>

\* A click on Process File, shown with a selected file and disabled while
\* processing.
ProcessFileClick ==
  /\ selectedFile # NullFile
  /\ ~isProcessing
  /\ StartProcessFile
  /\ UNCHANGED <<selectedFile, retryCount, lastError, serverVars, pageVars, tableVars>>

\* A click on Retry that is offered whatever the count is.
RetryClick_unbounded ==
  /\ error # NoMessage
  /\ ~isProcessing
  /\ retryCount' = retryCount + 1
  /\ StartProcessFile
  /\ UNCHANGED <<selectedFile, lastError, serverVars, pageVars, tableVars>>

\* A click on Retry, shown with an error while retryCount < 3 and disabled
\* while processing: retryProcessing.
RetryClick ==
  /\ error # NoMessage
  /\ retryCount < MAX_RETRIES
  /\ ~isProcessing
  /\ retryCount' = retryCount + 1
  /\ StartProcessFile
  /\ UNCHANGED <<selectedFile, lastError, serverVars, pageVars, tableVars>>

\* A click on Dismiss, shown with an error while retryCount < 3: clearError.
DismissClick ==
  /\ error # NoMessage
  /\ retryCount < MAX_RETRIES
  /\ error' = NoMessage
  /\ lastError' = NoMessage
  /\ retryCount' = 0
  /\ calls' = <<>>
  /\ UNCHANGED <<selectedFile, isProcessing, inFlight, serverVars, pageVars, tableVars>>

\* A click on Clear, shown with a selected file and disabled while
\* processing: clearFile.
ClearFileClick ==
  /\ selectedFile # NullFile
  /\ ~isProcessing
  /\ selectedFile' = NullFile
  /\ calls' = <<>>
  /\ UNCHANGED <<isProcessing, error, retryCount, lastError, inFlight, serverVars, pageVars, tableVars>>

\* await uploadFile(selectedFile) settles: fetch rejects, or gives a response.
FetchSettles ==
  /\ \E i \in 1..Len(inFlight) :
       /\ inFlight[i].at = "fetch"
       /\ \E outcome \in FetchOutcomes :
            IF outcome.kind = "rejected"
              THEN FailRun(i, outcome.error)
              ELSE /\ inFlight' = [inFlight EXCEPT ![i].at = "body",
                                                   ![i].response = outcome]
                   /\ UNCHANGED <<selectedFile, isProcessing, error, retryCount,
                                  lastError, calls>>
  /\ UNCHANGED <<serverVars, pageVars, tableVars>>

\* await response.json() settles, in handleApiResponse for a response that
\* is not ok, in processFile for one that is.
BodySettles ==
  /\ \E i \in 1..Len(inFlight) :
       /\ inFlight[i].at = "body"
       /\ LET resp == inFlight[i].response
          IN IF ~resp.ok THEN FailRun(i, handleApiResponse(resp))
             ELSE IF ~resp.json THEN FailRun(i, Message("Unexpected end of JSON input"))
             ELSE CompleteRun(i)
  /\ UNCHANGED <<serverVars, pageVars, tableVars>>

UploadNext ==
  \/ HandleFileInputChange
  \/ ProcessFileClick
  \/ RetryClick
  \/ DismissClick
  \/ ClearFileClick
  \/ FetchSettles
  \/ BodySettles

UploadSpec == Init /\ [][UploadNext]_vars

\* Every await of processFile settles: fetch gives a response or rejects,
\* and the body of a response is read or fails to parse.
UploadFairSpec ==
  /\ UploadSpec
  /\ WF_vars(FetchSettles)
  /\ WF_vars(BodySettles)

\* ------------------------------------------------------------------ page: handlers

\* The last two calls, with the call of the named handler as the last.
Called(name) ==
  IF pageCalls = <<>> THEN <<name>> ELSE <<pageCalls[Len(pageCalls)], name>>

\* handleFileProcessed(data)
HandleFileProcessed ==
  /\ \E data \in PageData : pageResults' = [null |-> FALSE, data |-> data]
  /\ pageError' = NullError
  /\ pageCalls' = Called("handleFileProcessed")
  /\ UNCHANGED <<serverVars, uiVars, tableVars>>

\* handleProcessingStart()
HandleProcessingStart ==
  /\ pageError' = NullError
  /\ pageResults' = NullResults
  /\ pageCalls' = Called("handleProcessingStart")
  /\ UNCHANGED <<serverVars, uiVars, tableVars>>

\* A handleError that leaves the results on the page.
HandleError_keepsResults ==
  /\ \E message \in PageMessages : pageError' = [null |-> FALSE, message |-> message]
  /\ pageCalls' = Called("handleError")
  /\ UNCHANGED <<pageResults, serverVars, uiVars, tableVars>>

\* handleError(errorMessage)
HandleError ==
  /\ \E message \in PageMessages : pageError' = [null |-> FALSE, message |-> message]
  /\ pageResults' = NullResults
  /\ pageCalls' = Called("handleError")
  /\ UNCHANGED <<serverVars, uiVars, tableVars>>

PageNext ==
  \/ HandleFileProcessed
  \/ HandleProcessingStart
  \/ HandleError

PageSpec == Init /\ [][PageNext]_vars

\* ------------------------------------------------------------------ data table: handlers

\* The table is mounted with its props.
MountTable ==
  /\ ~tableProps.mounted
  /\ tableProps' \in TableProps
  /\ UNCHANGED <<tableState, tableCall, serverVars, uiVars, pageVars>>

\* handleSort(field): a click on the header of one of the two columns.
HandleSort ==
  /\ tableProps.mounted
  /\ \E field \in {SORT_FIELDS.LOCATION, SORT_FIELDS.TEMPERATURE} :
       /\ tableCall' = [name |-> "handleSort", field |-> field]
       /\ IF ~tableProps.sortable
            THEN UNCHANGED tableState
          ELSE IF tableState.sortField = field
            THEN tableState' =
                   [tableState EXCEPT
                      !.sortDirection = IF @ = SORT_DIRECTIONS.ASC THEN SORT_DIRECTIONS.DESC
                                        ELSE SORT_DIRECTIONS.ASC,
                      !.currentPage = 1]
          ELSE tableState' = [tableState EXCEPT !.sortField = field,
                                                !.sortDirection = SORT_DIRECTIONS.ASC,
                                                !.currentPage = 1]
  /\ UNCHANGED <<tableProps, serverVars, uiVars, pageVars>>

\* handleSearch(event): the search field has a new value.
HandleSearch ==
  /\ tableProps.mounted
  /\ \E term \in SearchTerms :
       tableState' = [tableState EXCEPT !.searchTerm = term, !.currentPage = 1]
  /\ tableCall' = [name |-> "handleSearch", field |-> "none"]
  /\ UNCHANGED <<tableProps, serverVars, uiVars, pageVars>>

\* changePage(newPage): a click on Previous, on Next or on a page number,
\* shown when there is more than one page.
ChangePage ==
  /\ tableProps.mounted
  /\ totalPages > 1
  /\ \E newPage \in 1..totalPages :
       /\ \/ newPage = tableState.currentPage - 1
          \/ newPage = tableState.currentPage + 1
          \/ newPage = 1
          \/ newPage = totalPages
          \/ newPage \in (tableState.currentPage - 2)..(tableState.currentPage + 2)
       /\ tableState' = [tableState EXCEPT !.currentPage = newPage]
  /\ tableCall' = [name |-> "changePage", field |-> "none"]
  /\ UNCHANGED <<tableProps, serverVars, uiVars, pageVars>>

TableNext ==
  \/ MountTable
  \/ HandleSort
  \/ HandleSearch
  \/ ChangePage

TableSpec == Init /\ [][TableNext]_vars

\* ------------------------------------------------------------------ claims

\* The request was answered with the averages.
Succeeded == pc = "responded" /\ response.status = 200

\* processWaterQualityCSV has run on a content neat-csv could read.
Processed ==
  /\ pc \in {"processed", "responded"}
  /\ csvContent.kind = "csv"

HasText(x) == x # Undefined /\ trim(x) # <<>>

\* The row's characteristic, trimmed and case-folded, is the target.
IsTemperatureRow(row) ==
  /\ characteristicname \in DOMAIN row
  /\ toLowerCase(trim(row[characteristicname])) = TARGET_CHARACTERISTIC

\* The row's value is numeric.
HasNumericValue(row) ==
  /\ resultvalue \in DOMAIN row
  /\ parseFloat(trim(row[resultvalue])).k # "nan"

\* The row's trimmed location id is key.
IsAtLocation(row, key) ==
  /\ monitoringlocationid \in DOMAIN row
  /\ trim(row[monitoringlocationid]) = key

\* The rows that count for key, by their position in the file.
Contributing(key) ==
  {i \in 1..Len(rows) :
     IsTemperatureRow(rows[i]) /\ HasNumericValue(rows[i]) /\ IsAtLocation(rows[i], key)}

\* The sum of the values of the rows 1..n that count for key.
RECURSIVE SumOfContributing(_, _)
SumOfContributing(key, n) ==
  IF n = 0 THEN Fin(0)
  ELSE IF n \in Contributing(key)
    THEN Add(SumOfContributing(key, n - 1), parseFloat(trim(rows[n][resultvalue])))
  ELSE SumOfContributing(key, n - 1)

Abs(x) == IF x < 0 THEN 0 - x ELSE x

\* value is sum / count rounded to 2 decimals: a whole number of hundredths no
\* further than half a hundredth from sum / count (an infinite or undefined
\* sum is its own average).
IsRoundedMean(value, sum, count) ==
  IF sum.k # "fin" THEN value = sum
  ELSE /\ value.k = "fin"
       /\ value.v % 10 = 0
       /\ Abs(value.v * count - sum.v) <= 5 * count

\* C1: every value of the output is the mean, rounded to 2 decimals, of the
\* values of exactly the rows whose trimmed, case-folded characteristic is
\* "temperature, water", whose value is numeric and whose trimmed location id
\* is the key.
C1_GroupingCorrectness ==
  Succeeded =>
    \A key \in DOMAIN response.body :
      /\ Contributing(key) # {}
      /\ IsRoundedMean(response.body[key],
                       SumOfContributing(key, Len(rows)),
                       Cardinality(Contributing(key)))

\* Two rows of different values are averaged under one key, beside a row of
\* another characteristic that has a numeric value too.
C1_Witness ==
  /\ Succeeded
  /\ \E key \in DOMAIN response.body :
       /\ Contributing(key) = {1, 3}
       /\ parseFloat(trim(rows[1][resultvalue])) # parseFloat(trim(rows[3][resultvalue]))
       /\ response.body[key].k = "fin"
       /\ HasNumericValue(rows[2])
       /\ ~IsTemperatureRow(rows[2])

\* The values of the rows that count for key, in file order, as parsed.
RECURSIVE ParsedValues(_, _)
ParsedValues(key, n) ==
  IF n = 0 THEN <<>>
  ELSE IF n \in Contributing(key)
    THEN Append(ParsedValues(key, n - 1), parseFloat(trim(rows[n][resultvalue])))
  ELSE ParsedValues(key, n - 1)

\* value rounded to 2 decimals on its own.
RoundedAlone(value) ==
  IF value.k # "fin" THEN value ELSE Fin(10 * MathRound(value.v, 10))

\* C2: the values that are summed are the parsed values themselves, not rounded,
\* and the one rounding is that of the average.
C2_RoundedOnceAfterAveraging ==
  Succeeded =>
    \A key \in DOMAIN results :
      /\ groupedData[key] = ParsedValues(key, Len(rows))
      /\ IsRoundedMean(results[key], SumValues(groupedData[key]), Len(groupedData[key]))

\* A group whose values have a third decimal, where rounding each value
\* before the sum and the average after it gives another result.
C2_Witness ==
  /\ Succeeded
  /\ \E key \in DOMAIN results :
       LET values == groupedData[key]
           alone == [i \in 1..Len(values) |-> RoundedAlone(values[i])]
       IN /\ SumValues(values).k = "fin"
          /\ alone # values
          /\ results[key] # Fin(10 * MathRound(SumValues(alone).v, 10 * Len(values)))

\* The average of the rows of key lies exactly halfway between two hundredths.
IsHalfway(key) ==
  LET sum == SumOfContributing(key, Len(rows))
      count == Cardinality(Contributing(key))
  IN /\ sum.k = "fin"
     /\ (sum.v * 2) % (10 * count) = 0
     /\ (sum.v * 2) % (20 * count) # 0

\* C3 as stated: an average exactly halfway between two hundredths is rounded
\* to the hundredth of larger magnitude, positive or negative.
C3_HalfAwayFromZero ==
  Succeeded =>
    \A key \in DOMAIN results :
      IsHalfway(key) =>
        Abs(results[key].v) * Cardinality(Contributing(key))
          > Abs(SumOfContributing(key, Len(rows)).v)

\* C3 amended: an average exactly halfway between two hundredths is rounded to
\* the hundredth above it (toward positive infinity): of larger magnitude when
\* positive, of smaller magnitude when negative.
C3_HalfUp ==
  Succeeded =>
    \A key \in DOMAIN results :
      IsHalfway(key) =>
        /\ results[key].v % 10 = 0
        /\ results[key].v * Cardinality(Contributing(key))
             = SumOfContributing(key, Len(rows)).v + 5 * Cardinality(Contributing(key))

\* A negative average exactly halfway between two hundredths.
C3_Witness ==
  /\ Succeeded
  /\ \E key \in DOMAIN results :
       /\ IsHalfway(key)
       /\ SumOfContributing(key, Len(rows)).v < 0

\* The rows whose characteristic is the target, the others taken out.
TemperatureOnly(records) == SelectSeq(records, IsTemperatureRow)

\* C4: a row whose characteristic is not "temperature, water" after
\* lower-casing and trimming adds nothing to the output: no value and no key.
\* The output is that of the file without these rows, and every key is the
\* location of a temperature row.
C4_OtherCharacteristicsIgnored ==
  Succeeded =>
    /\ results = calculateAverages(groupByLocation(
                   extractTemperatureRows(TemperatureOnly(rows))))
    /\ \A key \in DOMAIN results :
         \E i \in 1..Len(rows) : IsTemperatureRow(rows[i]) /\ IsAtLocation(rows[i], key)

\* A pH row with a location and a numeric value beside a temperature row.
C4_Witness ==
  /\ Succeeded
  /\ \E i \in 1..Len(rows) :
       /\ ~IsTemperatureRow(rows[i])
       /\ HasText(Get(rows[i], characteristicname))
       /\ HasText(Get(rows[i], monitoringlocationid))
       /\ HasNumericValue(rows[i])
       /\ trim(rows[i][monitoringlocationid]) \notin DOMAIN results

\* A row that passes the filter: matching characteristic, a location and a
\* numeric value.
IsValidRow(row) ==
  /\ IsTemperatureRow(row)
  /\ HasNumericValue(row)
  /\ HasText(Get(row, monitoringlocationid))

\* The trimmed location ids of the valid rows.
ValidLocations ==
  {trim(rows[i][monitoringlocationid]) : i \in {j \in 1..Len(rows) : IsValidRow(rows[j])}}

\* The request was answered with the averages of the valid rows.
SucceededWithValidRows ==
  /\ Succeeded
  /\ DOMAIN response.body = ValidLocations
  /\ \A key \in DOMAIN response.body :
       IsRoundedMean(response.body[key],
                     SumOfContributing(key, Len(rows)),
                     Cardinality(Contributing(key)))

\* C5 as stated: a temperature row whose value does not parse as a number is
\* left out, and processing succeeds with the averages of the valid rows
\* whenever there is another row that is valid.
C5_NonNumericRowSkipped ==
  (pc = "responded" /\ Processed) =>
    \A i \in 1..Len(rows) :
      (/\ IsTemperatureRow(rows[i])
       /\ ~HasNumericValue(rows[i])
       /\ \E j \in 1..Len(rows) : j # i /\ IsValidRow(rows[j]))
      => SucceededWithValidRows

\* C6 as stated: with the three required columns in the file and at least one
\* valid row, processing succeeds wherever the invalid rows are.
C6_InvalidRowsNeverFailTheFile ==
  (pc = "responded" /\ Processed) =>
    ((/\ \A i \in 1..Len(rows) :
           \A j \in 1..Len(REQUIRED_COLUMNS) : REQUIRED_COLUMNS[j] \in DOMAIN rows[i]
      /\ \E i \in 1..Len(rows) : IsValidRow(rows[i]))
     => Succeeded)

\* The failures of the input: of the file's type, size and content and of
\* the rows of the CSV.
ValidationMessages ==
  {ERROR_MESSAGES.INVALID_FILE_TYPE, ERROR_MESSAGES.FILE_TOO_LARGE,
   ERROR_MESSAGES.EMPTY_FILE, ERROR_MESSAGES.INSUFFICIENT_DATA,
   ERROR_MESSAGES.MISSING_REQUIRED_COLUMNS, ERROR_MESSAGES.NO_TEMPERATURE_DATA}

\* C7 as stated: every validation failure is answered with status 400, and
\* status 500 is kept for unexpected internal failures.
C7_ValidationFailuresAre400 ==
  (pc = "responded" /\ thrown # NoError) =>
    /\ thrown.message.text \in ValidationMessages => response.status = 400
    /\ response.status = 500 => thrown.message.text \notin ValidationMessages

NoRowPasses == \A i \in 1..Len(rows) : ~IsValidRow(rows[i])

\* C8 as stated: if no row passes the filter, processing fails with the
\* no-temperature-data error and returns no result.
C8_NoTemperatureDataError ==
  (pc = "responded" /\ Processed /\ NoRowPasses) =>
    /\ thrown = PlainError(Message(ERROR_MESSAGES.NO_TEMPERATURE_DATA))
    /\ response.body = NoResults

\* The first record has a text under each required column.
FirstRecordComplete ==
  /\ Len(rows) > 0
  /\ \A j \in 1..Len(REQUIRED_COLUMNS) :
       /\ REQUIRED_COLUMNS[j] \in DOMAIN rows[1]
       /\ rows[1][REQUIRED_COLUMNS[j]] # <<>>

\* C8 amended: if no row passes the filter, processing fails and returns no
\* result; the error is the no-temperature-data error when there is a data row
\* and the first record has a text under each required column, the
\* insufficient-data error when there is no data row, and the missing-columns
\* error otherwise.
C8_NoValidRowFails ==
  (pc = "responded" /\ Processed /\ NoRowPasses) =>
    /\ thrown.type = "Error"
    /\ results = NoResults
    /\ response.body = NoResults
    /\ response.status # 200
    /\ thrown.message.text =
         IF Len(rows) = 0 THEN ERROR_MESSAGES.INSUFFICIENT_DATA
         ELSE IF ~FirstRecordComplete THEN ERROR_MESSAGES.MISSING_REQUIRED_COLUMNS
         ELSE ERROR_MESSAGES.NO_TEMPERATURE_DATA

\* Temperature rows only, none with a numeric value.
C8_Witness ==
  /\ pc = "responded"
  /\ Processed
  /\ NoRowPasses
  /\ Len(rows) = MaxRows
  /\ \A i \in 1..Len(rows) :
       IsTemperatureRow(rows[i]) /\ HasText(Get(rows[i], resultvalue))
  /\ thrown.message.text = ERROR_MESSAGES.NO_TEMPERATURE_DATA

\* C9: a file with a header line and no data row fails with the
\* insufficient-data error, whatever its columns are: the rows are counted
\* before the required columns are looked for.
C9_InsufficientDataFirst ==
  (pc = "responded" /\ Processed /\ Len(csvContent.rows) = 0) =>
    /\ thrown = PlainError(Message(ERROR_MESSAGES.INSUFFICIENT_DATA))
    /\ response.body = NoResults

\* No data row under a header line without the value column.
C9_Witness ==
  /\ pc = "responded"
  /\ Processed
  /\ Len(csvContent.rows) = 0
  /\ \A j \in 1..Len(csvContent.headers) :
       trim(toLowerCase(csvContent.headers[j])) # resultvalue
  /\ thrown.message.text = ERROR_MESSAGES.INSUFFICIENT_DATA

\* The required columns that are not among the keys of the first record.
IsAbsentColumn(col) == col \notin DOMAIN rows[1]

AbsentColumns == SelectSeq(REQUIRED_COLUMNS, IsAbsentColumn)

\* C10 as stated: if a required column is absent from the keys of the first
\* record, processing fails with the missing-columns error, and the message
\* lists the absent columns and no column that is there.
C10_MissingColumnsListed ==
  (pc = "responded" /\ Processed /\ Len(rows) > 0 /\ AbsentColumns # <<>>) =>
    thrown = PlainError(MessageWithColumns(
               ERROR_MESSAGES.MISSING_REQUIRED_COLUMNS, AbsentColumns))

\* readAndValidateCsvContent has read the file and checked it.
FileChecked ==
  /\ pc \in {"read", "processed", "responded"}
  /\ csvFile # NoFile
  /\ thrown.message.text # ERROR_MESSAGES.FILE_READ_ERROR

\* The file passed validateFileBasics.
FileAccepted == csvContent # NoContent

\* The last four characters of the name are ".csv" in any letter case.
HasCsvExtension(name) ==
  /\ Len(name) >= 4
  /\ name[Len(name) - 3] = "."
  /\ name[Len(name) - 2] \in {"c", "C"}
  /\ name[Len(name) - 1] \in {"s", "S"}
  /\ name[Len(name)] \in {"v", "V"}

IsBlank(text) == \A i \in 1..Len(text) : text[i] \in WhiteSpace

\* C11: a file is accepted exactly when its name ends in ".csv" in any letter
\* case, its size is at most 10 * 1024 * 1024 bytes and its content is not
\* blank; it is turned away for its type, else for its size, else as empty.
C11_FileBasics ==
  FileChecked =>
    /\ FileAccepted <=>
         /\ HasCsvExtension(csvFile.name)
         /\ csvFile.size <= 10485760
         /\ ~IsBlank(csvFile.content.text)
    /\ ~FileAccepted =>
         /\ response.status = 400
         /\ thrown.message.text =
              IF ~HasCsvExtension(csvFile.name) THEN ERROR_MESSAGES.INVALID_FILE_TYPE
              ELSE IF csvFile.size > 10485760 THEN ERROR_MESSAGES.FILE_TOO_LARGE
              ELSE ERROR_MESSAGES.EMPTY_FILE

\* A file named in capitals, of exactly the largest size, is accepted.
C11_Witness ==
  /\ FileChecked
  /\ FileAccepted
  /\ csvFile.name = FileNameUpper
  /\ csvFile.size = MAX_FILE_SIZE

\* The request was answered with an error.
FailedRequest == pc = "responded" /\ response.status # 200

\* The content type names multipart/form-data.
IsMultipart(contentType) ==
  contentType \in {"multipart/form-data", "multipart/form-data; boundary=x"}

\* The earliest stage that finds a problem with the request and its file, in
\* the order request validation, file extraction, file read, file basics,
\* CSV parse, zero-rows check, required-columns check, no-temperature-data
\* check, and the message of that problem.
EarliestProblem ==
  IF request.method # "POST"
    THEN [stage |-> "request", text |-> "Method not allowed"]
  ELSE IF ~IsMultipart(request.contentType)
    THEN [stage |-> "request", text |-> ERROR_MESSAGES.INVALID_REQUEST]
  ELSE IF ~request.formDataOk
    THEN [stage |-> "extraction", text |-> ERROR_MESSAGES.INVALID_REQUEST]
  ELSE IF ~request.hasFile
    THEN [stage |-> "extraction", text |-> ERROR_MESSAGES.NO_FILE_PROVIDED]
  ELSE IF ~request.readable
    THEN [stage |-> "read", text |-> ERROR_MESSAGES.FILE_READ_ERROR]
  ELSE IF ~HasCsvExtension(upload.name)
    THEN [stage |-> "basics", text |-> ERROR_MESSAGES.INVALID_FILE_TYPE]
  ELSE IF upload.size > 10485760
    THEN [stage |-> "basics", text |-> ERROR_MESSAGES.FILE_TOO_LARGE]
  ELSE IF IsBlank(upload.content.text)
    THEN [stage |-> "basics", text |-> ERROR_MESSAGES.EMPTY_FILE]
  ELSE IF upload.content.kind = "malformed"
    THEN [stage |-> "parse", text |-> "CSV parsing failed"]
  ELSE IF Len(upload.content.rows) = 0
    THEN [stage |-> "rows", text |-> ERROR_MESSAGES.INSUFFICIENT_DATA]
  ELSE IF ~FirstRecordComplete
    THEN [stage |-> "columns", text |-> ERROR_MESSAGES.MISSING_REQUIRED_COLUMNS]
  ELSE IF NoRowPasses
    THEN [stage |-> "temperature", text |-> ERROR_MESSAGES.NO_TEMPERATURE_DATA]
  ELSE [stage |-> "none", text |-> ""]

\* The stages after the given one have left nothing behind.
LaterStagesDidNotRun(stage) ==
  /\ stage \in {"request", "extraction"} => csvFile = NoFile
  /\ stage \in {"request", "extraction", "read", "basics"} => csvContent = NoContent
  /\ stage \in {"request", "extraction", "read", "basics", "parse"} => rows = <<>>
  /\ stage # "temperature" => temperatureRows = <<>>
  /\ groupedData = NoResults
  /\ results = NoResults

\* C12: a request fails exactly when some stage finds a problem; a failed
\* request is answered with the one error of the earliest such stage, the
\* later stages have not run, and no result is returned.
C12_EarliestStageFails ==
  pc = "responded" =>
    /\ FailedRequest <=> EarliestProblem.stage # "none"
    /\ FailedRequest =>
         /\ thrown # NoError
         /\ thrown.message.text = EarliestProblem.text
         /\ response.message = thrown.message
         /\ response.body = NoResults
         /\ LaterStagesDidNotRun(EarliestProblem.stage)

\* A GET request with the wrong content type, a body that does not parse and
\* an unreadable file with the wrong name is answered for its method.
C12_Witness ==
  /\ FailedRequest
  /\ request.method = "GET"
  /\ ~IsMultipart(request.contentType)
  /\ ~request.formDataOk
  /\ ~request.readable
  /\ ~HasCsvExtension(upload.name)
  /\ thrown.message.text = "Method not allowed"

IsFinite(x) == x.k = "fin"

\* C13 as stated: every observation that reaches the aggregator has a finite
\* value, and no average of the output is NaN or infinite.
C13_ObservationsFinite ==
  Processed =>
    /\ \A i \in 1..Len(temperatureRows) : IsFinite(temperatureRows[i].value)
    /\ \A key \in DOMAIN groupedData :
         \A i \in 1..Len(groupedData[key]) : IsFinite(groupedData[key][i])
    /\ \A key \in DOMAIN results : IsFinite(results[key])
    /\ \A key \in DOMAIN response.body : IsFinite(response.body[key])

LowerToUpper ==
  [c \in {LowerCase[i] : i \in 1..Len(LowerCase)} |->
     UpperCase[CHOOSE i \in 1..Len(LowerCase) : LowerCase[i] = c]]

toUpperCase(s) ==
  [i \in 1..Len(s) |-> IF s[i] \in DOMAIN LowerToUpper THEN LowerToUpper[s[i]] ELSE s[i]]

Padded(s) == <<" ">> \o s \o <<" ", "\t">>

\* Header lines that differ from the given one in letter case and in leading
\* and trailing white space only.
HeaderVariations(headers) ==
  {[j \in 1..Len(headers) |-> toLowerCase(headers[j])],
   [j \in 1..Len(headers) |-> toUpperCase(headers[j])],
   [j \in 1..Len(headers) |-> Padded(headers[j])],
   [j \in 1..Len(headers) |->
      IF j = 1 THEN Padded(toUpperCase(headers[j])) ELSE trim(headers[j])]}

\* What a caller sees of processWaterQualityCSV: the error or the averages.
OutcomeOf(content) ==
  LET out == processWaterQualityCSV(content)
  IN [thrown |-> out.thrown, results |-> out.results]

\* C14: a file whose header names differ from those of the processed file in
\* letter case or in leading and trailing white space only has the same
\* outcome, the same error or the same averages.
C14_HeaderVariationsAlike ==
  (pc = "responded" /\ Processed) =>
    \A headers \in HeaderVariations(csvContent.headers) :
      OutcomeOf([csvContent EXCEPT !.headers = headers])
        = [thrown |-> thrown, results |-> results]

\* A file with padded and capital header names gives the averages of two
\* locations.
C14_Witness ==
  /\ Succeeded
  /\ csvContent.headers[1] = HeaderLocationPadded
  /\ csvContent.headers[3] = HeaderValueUpper
  /\ Cardinality(DOMAIN results) = 2

\* C15: the keys of the output are exactly the trimmed location ids with at
\* least one valid temperature row; every group holds one value for each valid
\* row of its location, so none is empty when it is averaged, and a location
\* whose rows are all filtered out has no key.
C15_KeysAreValidLocations ==
  (Processed /\ (pc = "processed" \/ Succeeded)) =>
    /\ DOMAIN groupedData = ValidLocations
    /\ DOMAIN results = ValidLocations
    /\ \A key \in DOMAIN groupedData :
         /\ Len(groupedData[key]) >= 1
         /\ Len(groupedData[key]) = Cardinality(Contributing(key))
    /\ Succeeded => DOMAIN response.body = ValidLocations

\* A location whose only temperature row has a value that is no number is
\* not among the keys of the averages.
C15_Witness ==
  /\ Succeeded
  /\ \E i \in 1..Len(rows) :
       /\ IsTemperatureRow(rows[i])
       /\ HasText(Get(rows[i], resultvalue))
       /\ ~HasNumericValue(rows[i])
       /\ HasText(Get(rows[i], monitoringlocationid))
       /\ trim(rows[i][monitoringlocationid]) \notin DOMAIN response.body

\* The request was turned away before processWaterQualityCSV was called.
RejectedBeforeProcessing == pc = "responded" /\ csvContent = NoContent

\* C16: a request turned away before the CSV is processed, for its method,
\* its content type, its form data, the missing csvFile field, the unreadable
\* file or the file's type, size or blank content, is answered with status
\* 400 and the message of that rejection; handleApiError hands the error on
\* as it was thrown.
C16_EarlyRejectionsAre400 ==
  RejectedBeforeProcessing =>
    /\ EarliestProblem.stage \in {"request", "extraction", "read", "basics"}
    /\ thrown = [type |-> "HttpError", status |-> 400,
                 message |-> Message(EarliestProblem.text)]
    /\ response.status = thrown.status
    /\ response.message = thrown.message
    /\ response.body = NoResults

\* A file whose text cannot be read is answered with status 400.
C16_Witness ==
  /\ RejectedBeforeProcessing
  /\ csvFile # NoFile
  /\ ~request.readable
  /\ thrown.message.text = ERROR_MESSAGES.FILE_READ_ERROR
  /\ response.status = 400

\* Nothing of a request is left when the next one starts.
NothingLeft ==
  /\ csvFile = NoFile
  /\ csvContent = NoContent
  /\ rows = <<>>
  /\ temperatureRows = <<>>
  /\ groupedData = NoResults
  /\ results = NoResults
  /\ thrown = NoError
  /\ response = NoResponse

\* The request in hand is the earlier request, sent once more.
SentAgain ==
  /\ earlier # NoEarlier
  /\ pc = "responded"
  /\ request = earlier.request
  /\ upload = earlier.upload

RoundToHundredths(v) == 10 * ((v + 5) \div 10)

\* C18: every value of the output is a fixed point of the rounding step:
\* rounded to 2 decimals once more, as the only value of a group, it is the
\* same value.
C18_RoundingIdempotent ==
  Processed =>
    \A key \in DOMAIN results :
      /\ roundedAverage(results[key], 1) = results[key]
      /\ IsFinite(results[key]) => RoundToHundredths(results[key].v) = results[key].v

\* An average that the rounding step changed, below zero or above.
C18_Witness ==
  /\ Succeeded
  /\ \E key \in DOMAIN results :
       /\ IsFinite(results[key])
       /\ results[key].v < 0
       /\ results[key].v * Cardinality(Contributing(key))
            # SumOfContributing(key, Len(rows)).v
  /\ \E key \in DOMAIN results :
       /\ IsFinite(results[key])
       /\ results[key].v > 0
       /\ results[key].v * Cardinality(Contributing(key))
            # SumOfContributing(key, Len(rows)).v

\* The text without its sign.
Unsigned(t) == IF t # <<>> /\ t[1] \in {"+", "-"} THEN Tail(t) ELSE t

\* The text is a number written out in full: an optional sign, then the word
\* Infinity or digits with at most one point among them and at least one
\* digit.
IsNumeral(t) ==
  LET u == Unsigned(t)
      points == {i \in 1..Len(u) : u[i] = "."}
  IN \/ u = <<"I", "n", "f", "i", "n", "i", "t", "y">>
     \/ /\ \A i \in 1..Len(u) : u[i] = "." \/ u[i] \in DOMAIN DigitValues
        /\ Cardinality(points) <= 1
        /\ Cardinality(points) < Len(u)

\* The length of the longest numeral the text starts with, 0 if it starts
\* with none.
NumericPrefixLength(t) ==
  LET lengths == {n \in 1..Len(t) : IsNumeral(SubSeq(t, 1, n))}
  IN IF lengths = {} THEN 0
     ELSE CHOOSE n \in lengths : \A m \in lengths : m <= n

\* The thousandths the digit at place i of an unsigned numeral with its point
\* at place p stands for (p is past the end when there is no point).
PlaceThousandths(u, i, p) ==
  IF i = p THEN 0
  ELSE IF i < p THEN DigitValues[u[i]] * 1000 *
                       (IF p - i = 1 THEN 1 ELSE IF p - i = 2 THEN 10 ELSE 100)
  ELSE IF i - p = 1 THEN DigitValues[u[i]] * 100
  ELSE IF i - p = 2 THEN DigitValues[u[i]] * 10
  ELSE IF i - p = 3 THEN DigitValues[u[i]]
  ELSE 0

RECURSIVE SumOfPlaces(_, _, _)
SumOfPlaces(u, n, p) ==
  IF n = 0 THEN 0 ELSE SumOfPlaces(u, n - 1, p) + PlaceThousandths(u, n, p)

\* The number a numeral stands for.
NumeralValue(t) ==
  LET u == Unsigned(t)
      sign == IF t[1] = "-" THEN -1 ELSE 1
      points == {i \in 1..Len(u) : u[i] = "."}
      p == IF points = {} THEN Len(u) + 1 ELSE CHOOSE i \in points : TRUE
  IN IF u = <<"I", "n", "f", "i", "n", "i", "t", "y">>
       THEN [k |-> "inf", v |-> sign]
       ELSE [k |-> "fin", v |-> sign * SumOfPlaces(u, Len(u), p)]

\* The rows that reach the conversion of their value and start with a numeral:
\* temperature rows with a location id and a value.
RowsWithNumericPrefix ==
  {i \in 1..Len(rows) :
     /\ IsTemperatureRow(rows[i])
     /\ HasText(Get(rows[i], monitoringlocationid))
     /\ HasText(Get(rows[i], resultvalue))
     /\ NumericPrefixLength(trim(rows[i][resultvalue])) > 0}

\* C19: in a file that passes the checks of its rows and columns, the
\* observations are those of the temperature rows whose value starts with a
\* numeral, each with the value of the longest numeral its text starts with,
\* whatever follows the numeral; a row whose value starts with no numeral
\* gives no observation.
C19_NumericPrefixAccepted ==
  (Processed /\ FirstRecordComplete) =>
    /\ Len(temperatureRows) = Cardinality(RowsWithNumericPrefix)
    /\ \A i \in RowsWithNumericPrefix :
         LET text == trim(rows[i][resultvalue])
             rank == Cardinality({j \in RowsWithNumericPrefix : j <= i})
         IN /\ temperatureRows[rank].locationId = trim(rows[i][monitoringlocationid])
            /\ temperatureRows[rank].value
                 = NumeralValue(SubSeq(text, 1, NumericPrefixLength(text)))

\* A value of a numeral followed by letters is averaged, next to a value
\* without a numeral that is left out.
C19_Witness ==
  /\ Succeeded
  /\ \E i \in RowsWithNumericPrefix :
       /\ NumericPrefixLength(trim(rows[i][resultvalue])) < Len(trim(rows[i][resultvalue]))
       /\ response.body[trim(rows[i][monitoringlocationid])] = Fin(1500)
  /\ \E i \in 1..Len(rows) :
       /\ i \notin RowsWithNumericPrefix
       /\ IsTemperatureRow(rows[i])
       /\ HasText(Get(rows[i], resultvalue))

\* The Retry control is shown.
RetryOffered == error # NoMessage /\ retryCount < 3

\* C20: retryCount stays within 0..3; it goes up only by one, by a retry
\* issued while the Retry control is offered, that is with an error shown and
\* retryCount < 3; and it is 0 again after the error is dismissed, after a
\* file is picked and after processing has succeeded.
C20_BoundedRetries ==
  [][/\ retryCount \in 0..3
     /\ retryCount' \in 0..3
     /\ retryCount' # retryCount =>
          \/ retryCount' = retryCount + 1 /\ RetryOffered /\ ~isProcessing
          \/ retryCount' = 0
     /\ (error # NoMessage /\ error' = NoMessage /\ inFlight' = inFlight)
          => retryCount' = 0
     /\ (selectedFile' # selectedFile /\ selectedFile' # NullFile) => retryCount' = 0
     /\ (calls' # <<>> /\ calls'[Len(calls')].name = "onfileprocessed" /\ calls' # calls)
          => retryCount' = 0]_vars

\* Three retries have failed: the error is shown and no retry is offered.
C20_Witness ==
  /\ retryCount = 3
  /\ error # NoMessage
  /\ ~isProcessing
  /\ ~RetryOffered

\* ------------------------------------------------------------------ C21

\* C21: whenever processWaterQualityCSV returns normally its result has at
\* least one key, so POST's empty-result check never fires: no response
\* carries NO_VALID_DATA.
C21_NoValidDataUnreachable ==
  /\ pc = "processed" =>
       /\ Len(temperatureRows) > 0
       /\ DOMAIN results # {}
       /\ DOMAIN results = {temperatureRows[i].locationId : i \in 1..Len(temperatureRows)}
  /\ pc = "read" =>
       LET out == processWaterQualityCSV(csvContent)
       IN out.thrown = NoError => DOMAIN out.results # {}
  /\ response.message # Message(ERROR_MESSAGES.NO_VALID_DATA)
  /\ thrown.message # Message(ERROR_MESSAGES.NO_VALID_DATA)

\* processWaterQualityCSV has returned the averages of a file with rows that
\* were filtered out and rows that were kept.
C21_Witness ==
  /\ pc = "processed"
  /\ Len(rows) > Len(temperatureRows)
  /\ Len(temperatureRows) > 0

\* ------------------------------------------------------------------ C22

\* The data rows of a content in another order.
Reordered(content, p) ==
  [content EXCEPT !.rows = [i \in 1..Len(content.rows) |-> content.rows[p[i]]]]

\* The error class (the message without the columns it lists) or the averages.
OutcomeClassOf(content) ==
  LET out == processWaterQualityCSV(content)
  IN [type |-> out.thrown.type, text |-> out.thrown.message.text, results |-> out.results]

\* C22: the outcome does not depend on the order of the data rows: a file
\* with the same header and the same data rows in any other order gives the
\* same error class or the same location-to-average mapping.
C22_RowOrderIndependent ==
  (pc = "responded" /\ Processed) =>
    \A p \in Permutations(1..Len(csvContent.rows)) :
      OutcomeClassOf(Reordered(csvContent, p)) = OutcomeClassOf(csvContent)

\* The same, for files whose every data row has a non-empty cell in each of
\* the three required columns: the only order dependence is the check of the
\* first row.
AllCellsFilled ==
  \A i \in 1..Len(rows) : \A j \in 1..Len(REQUIRED_COLUMNS) :
    Truthy(Get(rows[i], REQUIRED_COLUMNS[j]))

C22_OrderIndependentWhenCellsFilled ==
  (pc = "responded" /\ Processed /\ AllCellsFilled) =>
    \A p \in Permutations(1..Len(csvContent.rows)) :
      OutcomeClassOf(Reordered(csvContent, p)) = OutcomeClassOf(csvContent)

\* ------------------------------------------------------------------ C23

\* The rules of validateFileBasics the checked file breaks, in the order
\* extension, size, content.
BrokenRules ==
  LET broken == [rule \in {1, 2, 3} |->
                   IF rule = 1 THEN ~HasCsvExtension(csvFile.name)
                   ELSE IF rule = 2 THEN csvFile.size > 10485760
                   ELSE IsBlank(csvFile.content.text)]
      Broken(rule) == broken[rule]
  IN SelectSeq(<<1, 2, 3>>, Broken)

\* The one message of each rule.
RuleMessages ==
  <<ERROR_MESSAGES.INVALID_FILE_TYPE, ERROR_MESSAGES.FILE_TOO_LARGE, ERROR_MESSAGES.EMPTY_FILE>>

\* The rules of the upload component's validateFile a picked file breaks, in
\* the order extension, size above the limit, size zero.
BrokenClientRules(file) ==
  LET broken == [rule \in {1, 2, 3} |->
                   IF rule = 1 THEN ~HasCsvExtension(file.name)
                   ELSE IF rule = 2 THEN file.size > 10485760
                   ELSE file.size = 0]
      Broken(rule) == broken[rule]
  IN SelectSeq(<<1, 2, 3>>, Broken)

\* C23: a file that breaks one or several rules of validateFileBasics gets
\* exactly one error, that of the first rule it breaks in the order wrong
\* extension, oversize, empty content; the upload component's validateFile
\* keeps the same order among these three for a file of an allowed MIME type.
C23_FirstViolatedRuleReported ==
  (FileChecked /\ BrokenRules # <<>>) =>
    /\ pc = "responded"
    /\ thrown = HttpError(400, Message(RuleMessages[Head(BrokenRules)]))
    /\ response = ErrorResponse(thrown)
    /\ \A rule \in 1..3 :
         rule # Head(BrokenRules) => response.message.text # RuleMessages[rule]
    /\ \A file \in PickedFiles :
         (file.type \in ALLOWED_MIME_TYPES /\ BrokenClientRules(file) # <<>>) =>
           validateFile(file) =
             Message(<<ERROR_MESSAGES.INVALID_FILE_TYPE, ERROR_MESSAGES.FILE_TOO_LARGE,
                       "File is empty">>[Head(BrokenClientRules(file))])

\* A file that breaks all three rules was turned away for its extension.
C23_Witness ==
  /\ FileChecked
  /\ Len(BrokenRules) = 3
  /\ response.message.text = ERROR_MESSAGES.INVALID_FILE_TYPE

\* ------------------------------------------------------------------ C24

\* What fetch gives the upload component when POST has thrown: the status of
\* the error and, as JSON, the body { message } that error(status, { message })
\* was called with.
AnswerOfApi(resp) ==
  [kind |-> "response", ok |-> FALSE, status |-> resp.status, json |-> TRUE,
   error |-> NoMessage, message |-> resp.message]

\* Errors POST's try block throws: one of readAndValidateCsvContent and one
\* of processWaterQualityCSV.
ApiErrors ==
  {HttpError(400, Message(ERROR_MESSAGES.EMPTY_FILE)),
   PlainError(Message(ERROR_MESSAGES.NO_TEMPERATURE_DATA))}

ApiAnswers == {AnswerOfApi(handleApiError(err)) : err \in ApiErrors}

\* Run i of processFile ends in this step.
RunEnds(i) ==
  /\ i \in 1..Len(inFlight)
  /\ inFlight' = RemoveAt(inFlight, i)

\* C24: when the API answers with a non-OK status and a JSON body carrying
\* the server's error message, the run of processFile that reads the body
\* reports that message through onerror, not a fallback message.
C24_ServerMessageReported ==
  [][\A i \in 1..Len(inFlight) :
       (/\ inFlight[i].at = "body"
        /\ inFlight[i].response \in ApiAnswers
        /\ RunEnds(i))
         => /\ calls' # <<>>
            /\ calls'[Len(calls')] = Call("onerror", inFlight[i].response.message)
            /\ error' = inFlight[i].response.message]_vars

\* What the component reports instead: the fallback message PROCESSING_FAILED,
\* whatever message the API sent.
C24_FallbackReported ==
  [][\A i \in 1..Len(inFlight) :
       (/\ inFlight[i].at = "body"
        /\ inFlight[i].response \in ApiAnswers
        /\ RunEnds(i))
         => /\ calls' = Append(calls, Call("onerror", Message(ERROR_MESSAGES.PROCESSING_FAILED)))
            /\ error' = Message(ERROR_MESSAGES.PROCESSING_FAILED)]_vars

\* ------------------------------------------------------------------ C25

\* C25: on the page, after any sequence of handleProcessingStart,
\* handleFileProcessed and handleError calls, results and error are never
\* both non-null: after handleFileProcessed there is a result and no error,
\* after handleError an error and no result, after handleProcessingStart
\* neither.
C25_ResultsAndErrorExclusive ==
  /\ pageResults.null \/ pageError.null
  /\ pageCalls # <<>> =>
       LET last == pageCalls[Len(pageCalls)]
       IN /\ last = "handleFileProcessed" => ~pageResults.null /\ pageError.null
          /\ last = "handleError" => pageResults.null /\ ~pageError.null
          /\ last = "handleProcessingStart" => pageResults.null /\ pageError.null

\* An error was reported right after a result was shown.
C25_Witness ==
  /\ pageCalls = <<"handleFileProcessed", "handleError">>
  /\ pageResults.null
  /\ pageError = [null |-> FALSE, message |-> Message(ERROR_MESSAGES.SERVER_ERROR)]

\* ------------------------------------------------------------------ C26

\* C26: in the upload component at most one upload request is in flight at
\* any time, and one is in flight exactly while isProcessing is true; no click
\* and no change of the file picker starts a run of processFile, or changes
\* the selected file, while isProcessing is true.
C26_OneUploadInFlight ==
  [][/\ Len(inFlight) <= 1
     /\ Len(inFlight') <= 1
     /\ isProcessing <=> inFlight # <<>>
     /\ isProcessing' <=> inFlight' # <<>>
     /\ isProcessing =>
          /\ Len(inFlight') <= Len(inFlight)
          /\ selectedFile' \in {selectedFile, NullFile}
          /\ retryCount' \in {retryCount, 0}]_vars

\* A retried upload is in flight and its response has arrived.
C26_Witness ==
  /\ isProcessing
  /\ Len(inFlight) = 1
  /\ inFlight[1].at = "body"
  /\ retryCount = 2

\* ------------------------------------------------------------------ C27

\* The calls of a run of processFile that has ended: onprocessingstart, then
\* one call of onfileprocessed or of onerror.
EndedWithOneCallback(made) ==
  /\ Len(made) = 2
  /\ made[1] = Call("onprocessingstart", NoMessage)
  /\ made[2].name \in {"onfileprocessed", "onerror"}

\* C27: every run of processFile that sets isProcessing to true sets it back
\* to false, whether the upload succeeds, the API answers with an error or
\* the request throws; during the run neither callback is called, and the
\* step that ends it calls exactly one of onfileprocessed and onerror:
\* onfileprocessed exactly when the response was ok and its body was read.
C27_RunEndsWithOneCallback ==
  /\ isProcessing ~> ~isProcessing
  /\ [][/\ isProcessing => calls = <<Call("onprocessingstart", NoMessage)>>
        /\ (isProcessing /\ ~isProcessing') =>
             /\ EndedWithOneCallback(calls')
             /\ calls'[2].name = "onfileprocessed"
                  <=> /\ inFlight[1].at = "body"
                      /\ inFlight[1].response.ok
                      /\ inFlight[1].response.json]_vars

\* A run has ended with onerror after fetch was rejected.
C27_Witness ==
  /\ ~isProcessing
  /\ calls = <<Call("onprocessingstart", NoMessage), Call("onerror", Message("Failed to fetch"))>>
  /\ inFlight = <<>>

\* ------------------------------------------------------------------ C28

\* The run of processFile in flight ends in this step.
RunOfProcessFileEnds == isProcessing /\ ~isProcessing'

\* The run in flight has an ok response whose body can be read.
UploadSucceeds ==
  /\ inFlight # <<>>
  /\ inFlight[1].at = "body"
  /\ inFlight[1].response.ok
  /\ inFlight[1].response.json

\* C28: a successful processFile clears the selected file, error, lastError
\* and retryCount; a failed processFile leaves the selected file and
\* retryCount as they are and sets error and lastError to the failure.
C28_FrameOfProcessFile ==
  [][RunOfProcessFileEnds =>
       IF UploadSucceeds
         THEN /\ selectedFile' = NullFile
              /\ error' = NoMessage
              /\ lastError' = NoMessage
              /\ retryCount' = 0
         ELSE /\ selectedFile' = selectedFile
              /\ selectedFile' # NullFile
              /\ retryCount' = retryCount
              /\ error' # NoMessage
              /\ lastError' = error'
              /\ calls'[Len(calls')] = Call("onerror", error')]_vars

\* A second retry of the same file has failed: the file is still selected
\* and the error is shown.
C28_Witness ==
  /\ ~isProcessing
  /\ selectedFile \in PickedFiles
  /\ retryCount = 2
  /\ error = Message(ERROR_MESSAGES.SERVER_ERROR)
  /\ lastError = error

\* ------------------------------------------------------------------ C29

\* The sort state of a column: the direction when the table is sorted by
\* it, none when it is not.
SortStateOf(field, st) ==
  IF st.sortField = field THEN st.sortDirection ELSE "none"

\* none -> asc -> desc -> none
NextInCycle(sortState) ==
  IF sortState = "none" THEN "asc"
  ELSE IF sortState = "asc" THEN "desc"
  ELSE "none"

\* handleSort was called for the column in this step, on a sortable table.
SortedBy(field) ==
  /\ tableProps.sortable
  /\ tableCall' = [name |-> "handleSort", field |-> field]
  /\ tableState' # tableState

\* C29: repeated handleSort calls on the same column cycle the sort state of
\* the column none -> asc -> desc -> none.
C29_SortCycle ==
  [][\A field \in {SORT_FIELDS.LOCATION, SORT_FIELDS.TEMPERATURE} :
       SortedBy(field) =>
         SortStateOf(field, tableState') = NextInCycle(SortStateOf(field, tableState))]_vars

\* What handleSort does: none -> asc -> desc -> asc, the column stays sorted.
C29_SortToggles ==
  [][\A field \in {SORT_FIELDS.LOCATION, SORT_FIELDS.TEMPERATURE} :
       SortedBy(field) =>
         /\ SortStateOf(field, tableState') =
              (IF SortStateOf(field, tableState) = "asc" THEN "desc" ELSE "asc")
         /\ SortTitle(field) = CONTENT_TEXT.SORT_NONE
              => SortStateOf(field, tableState') = "asc"]_vars

====
